---- MODULE Spec2Model ----
(***************************************************************************)
(* Terrain / biome generation engine of game-prototyper                    *)
(* (src/src/terrain.ts, class TerrainGenerator, and the PerlinNoise        *)
(* constructor of src/unnamed/part_000).                                   *)
(*                                                                         *)
(* Numbers are fixed-point integers:                                       *)
(*   control values, control ranges, noise values : hundredths             *)
(*   material descriptor fields                   : tenths                 *)
(*   biome terrainParams                          : baseHeight, amplitude  *)
(*        and octaves in units, persistence and lacunarity in tenths,      *)
(*        scale in thousandths                                             *)
(*   NoiseParams returned by getBiomeInfo         : ten times the biome    *)
(*        units (the blend factor alpha is a number of tenths)             *)
(*   heights                                      : thousandths            *)
(* World extents are multiples of 2*segments, so that the world            *)
(* coordinates of grid nodes and of cell centres are integers and every    *)
(* quotient below is exact.                                                *)
(***************************************************************************)
EXTENDS Integers, Sequences, FiniteSets, TLC

VARIABLES engine, engine2, query, classified, lookup, colour, validated, perm,
          blending, scene, player, river

vars == <<engine, engine2, query, classified, lookup, colour, validated, perm,
          blending, scene, player, river>>

(***************************************************************************)
(* Bounds of the model                                                     *)
(***************************************************************************)
\* largest value of global.segments
MaxSeg == 2
\* world depth of one grid cell, in half cells (depth = 2*segments*MaxCell,
\* width = 2*segments)
MaxCell == 2
\* number of values Math.random() can yield for an unseeded PerlinNoise
MaxRandom == 2
\* number of seeds offered for biomeControl.seed
MaxSeed == 1
\* how far outside the world rectangle height queries are made
MaxOut == 3

(***************************************************************************)
(* Values                                                                  *)
(***************************************************************************)
\* a field that is absent from an object (JavaScript undefined)
Undefined == 0 - 99999

\* the number NaN
NaN == 0 - 88888

\* BiomeMaterialType
STANDARD == "standard"
CRYSTAL == "crystal"
GLOWING == "glowing"
WATER == "water"

\* a || d
OrDefault(v, d) == IF v = Undefined \/ v = 0 THEN d ELSE v

\* the truthiness of a numeric field that may be absent
Truthy(v) == v # Undefined /\ v # 0

Max2(a, b) == IF a >= b THEN a ELSE b

Min2(a, b) == IF a <= b THEN a ELSE b

\* lerp(a, b, alpha) with alpha = alphaTenths / 10; the result is ten times
\* a * (1 - alpha) + b * alpha
lerp(a, b, alphaTenths) == a * (10 - alphaTenths) + b * alphaTenths

(***************************************************************************)
(* Biome profiles offered to the engine                                    *)
(***************************************************************************)
NoMaterial ==
    [present |-> FALSE, isWater |-> FALSE, transparency |-> Undefined,
     reflectivity |-> Undefined, iridescence |-> Undefined, emission |-> Undefined]

Material(w, t, r, i, e) ==
    [present |-> TRUE, isWater |-> w, transparency |-> t,
     reflectivity |-> r, iridescence |-> i, emission |-> e]

NoiseParams(b, s, o, p, l, a) ==
    [seed |-> Undefined, baseHeight |-> b, scale |-> s, octaves |-> o,
     persistence |-> p, lacunarity |-> l, amplitude |-> a]

BiomeProfile(n, lo, hi, tp, m) ==
    [name |-> n, controlRange |-> <<lo, hi>>, terrainParams |-> tp, material |-> m]

Plains == BiomeProfile("Plains", -100, 0, NoiseParams(10, 10, 4, 5, 20, 20), NoMaterial)

Hills == BiomeProfile("Hills", 0, 100, NoiseParams(40, 5, 3, Undefined, Undefined, Undefined), NoMaterial)

Lake == BiomeProfile("Lake", 0, 50, NoiseParams(-20, 5, 2, 5, 20, 5),
                     Material(TRUE, Undefined, Undefined, Undefined, 9))

Glacier == BiomeProfile("Glacier", 50, 100, NoiseParams(80, 20, 5, 6, 25, 0),
                        Material(FALSE, 8, 3, Undefined, Undefined))

Lava == BiomeProfile("Lava", -100, 0, NoiseParams(5, 10, 2, 5, 20, 10),
                     Material(FALSE, 2, Undefined, Undefined, 6))

Mirror == BiomeProfile("Mirror", -100, 100, NoiseParams(0, 10, 1, 5, 20, 3),
                       Material(FALSE, Undefined, 7, Undefined, Undefined))

\* the biome lists handed to the constructor and to regenerate, in the order
\* the caller wrote them (not necessarily sorted)
BiomeLists ==
    { <<>>,
      <<Plains>>,
      <<Mirror>>,
      <<Plains, Hills>>,
      <<Hills, Plains>>,
      <<Plains, Lake, Glacier>>,
      <<Glacier, Lake, Plains>>,
      <<Glacier, Plains>>,
      <<Lake, Lava>>,
      <<Glacier, Lava, Lake>>,
      <<Lake>> }

ParamsSet ==
    { [global |-> [width |-> 2 * s, depth |-> 2 * s * MaxCell, segments |-> s],
       biomeControl |-> [seed |-> cs, scale |-> 1, octaves |-> 2],
       biomes |-> bl] :
        s \in 1..MaxSeg, cs \in 0..(MaxSeed - 1), bl \in BiomeLists }

\* the values Math.floor(Math.random() * 0xffffffff) can take
RandomSeeds == 0..(MaxRandom - 1)

(***************************************************************************)
(* Material classification (terrain.ts, top of file)                       *)
(***************************************************************************)
hasSignificantTransparency(mat) == Truthy(mat.transparency) /\ mat.transparency > 5

hasSignificantReflectivity(mat) == Truthy(mat.reflectivity) /\ mat.reflectivity > 6

hasSignificantIridescence(mat) == Truthy(mat.iridescence) /\ mat.iridescence > 5

\* variant: the emission test placed before the water and crystal tests
classifyBiomeMaterial_EmissionFirst(biome) ==
    LET mat == biome.material IN
    IF ~mat.present
    THEN [materialType |-> STANDARD, priority |-> 1, coverage |-> 10]
    ELSE IF Truthy(mat.emission) /\ mat.emission > 4
    THEN [materialType |-> GLOWING, priority |-> 4, coverage |-> mat.emission]
    ELSE IF mat.isWater
    THEN [materialType |-> WATER, priority |-> 8, coverage |-> 10]
    ELSE IF hasSignificantTransparency(mat) \/ hasSignificantReflectivity(mat)
            \/ hasSignificantIridescence(mat)
    THEN [materialType |-> CRYSTAL, priority |-> 6,
          coverage |-> Max2(OrDefault(mat.transparency, 0),
                            Max2(OrDefault(mat.reflectivity, 0),
                                 OrDefault(mat.iridescence, 0)))]
    ELSE [materialType |-> STANDARD, priority |-> 1, coverage |-> 10]

classifyBiomeMaterial(biome) ==
    LET mat == biome.material IN
    IF ~mat.present
    THEN [materialType |-> STANDARD, priority |-> 1, coverage |-> 10]
    ELSE IF mat.isWater
    THEN [materialType |-> WATER, priority |-> 8, coverage |-> 10]
    ELSE IF hasSignificantTransparency(mat) \/ hasSignificantReflectivity(mat)
            \/ hasSignificantIridescence(mat)
    THEN [materialType |-> CRYSTAL, priority |-> 6,
          coverage |-> Max2(OrDefault(mat.transparency, 0),
                            Max2(OrDefault(mat.reflectivity, 0),
                                 OrDefault(mat.iridescence, 0)))]
    ELSE IF Truthy(mat.emission) /\ mat.emission > 4
    THEN [materialType |-> GLOWING, priority |-> 4, coverage |-> mat.emission]
    ELSE [materialType |-> STANDARD, priority |-> 1, coverage |-> 10]

\* A Map is a sequence of entries in insertion order, one entry per key.
MapKeys(m) == { m[i].materialType : i \in 1..Len(m) }

MapHas(m, k) == k \in MapKeys(m)

MapGet(m, k) == m[CHOOSE i \in 1..Len(m) : m[i].materialType = k]

RECURSIVE analyzeFrom(_, _, _)
analyzeFrom(biomes, index, materialMap) ==
    IF index > Len(biomes) THEN materialMap
    ELSE LET classification == classifyBiomeMaterial(biomes[index])
             t == classification.materialType
             withKey == IF MapHas(materialMap, t) THEN materialMap
                        ELSE Append(materialMap, [materialType |-> t, classifications |-> <<>>])
             pushed == [i \in 1..Len(withKey) |->
                          IF withKey[i].materialType = t
                          THEN [withKey[i] EXCEPT !.classifications =
                                   Append(@, [materialType |-> t,
                                              priority |-> classification.priority,
                                              coverage |-> classification.coverage,
                                              biomeIndex |-> index - 1])]
                          ELSE withKey[i]]
         IN analyzeFrom(biomes, index + 1, pushed)

analyzeMaterialRequirements(biomes) == analyzeFrom(biomes, 1, <<>>)

(***************************************************************************)
(* PerlinNoise                                                             *)
(***************************************************************************)
\* new PerlinNoise(seed): a numeric seed is kept, an absent one is replaced
\* by the value rnd drawn from Math.random()
PerlinNoise(seed, rnd) == [seed |-> IF seed # Undefined THEN seed ELSE rnd]

\* the values a fractal noise evaluation can return, in hundredths
NoiseLevels == <<-100, -60, -5, 0, 25, 45, 55, 95, 100>>

\* noise.fBm(x, z, params): a fixed function of the generator's seed (through
\* the permutation table built at construction), the coordinates and the
\* octave parameters
fBm(noise, x, z, params) ==
    IF x = NaN \/ z = NaN THEN NaN
    ELSE NoiseLevels[((noise.seed * 5 + x * 3 + z * 7 + params.scale + params.octaves)
                         % Len(NoiseLevels)) + 1]

(***************************************************************************)
(* TerrainGenerator: construction                                          *)
(***************************************************************************)
\* insert biome b into the sorted sequence s after every element whose lower
\* bound is not greater (Array.prototype.sort is stable)
RECURSIVE insertByRange(_, _)
insertByRange(s, b) ==
    IF s = <<>> THEN <<b>>
    ELSE IF Head(s).controlRange[1] <= b.controlRange[1]
         THEN <<Head(s)>> \o insertByRange(Tail(s), b)
         ELSE <<b>> \o s

RECURSIVE sortBiomes(_)
sortBiomes(bs) ==
    IF bs = <<>> THEN <<>>
    ELSE insertByRange(sortBiomes(SubSeq(bs, 1, Len(bs) - 1)), bs[Len(bs)])

NoMesh == [present |-> FALSE, vertices |-> <<>>, indices |-> <<>>]

\* what the last call on the engine handed back to its caller
NoResult == [kind |-> "none", children |-> <<>>]

\* new TerrainGenerator(params); rnd is the Math.random() draw of the
\* general purpose noise
Construct(params, rnd) ==
    LET sorted == sortBiomes(params.biomes) IN
    [terrainParams |-> [params EXCEPT !.biomes = sorted],
     noise |-> PerlinNoise(Undefined, rnd),
     biomeControlNoise |-> PerlinNoise(params.biomeControl.seed, rnd),
     width |-> params.global.width,
     depth |-> params.global.depth,
     segments |-> params.global.segments,
     biomes |-> sorted,
     materialRequirements |-> analyzeMaterialRequirements(sorted),
     materialMeshes |-> <<>>,
     materialGeometries |-> <<>>,
     mesh |-> NoMesh,
     heightMap |-> <<>>,
     result |-> NoResult]

(***************************************************************************)
(* TerrainGenerator: biome lookup and elevation                            *)
(***************************************************************************)
\* const transitionWidth = 0.1, in hundredths
transitionWidth == 10

\* variant: the upper bound of the range included
inRange_Closed(biome, controlValue) ==
    controlValue >= biome.controlRange[1] /\ controlValue <= biome.controlRange[2]

inRange(biome, controlValue) ==
    controlValue >= biome.controlRange[1] /\ controlValue < biome.controlRange[2]

\* the index at which the lookup loop breaks, 0 when it runs to its end
firstMatch(biomes, controlValue) ==
    IF \E i \in 1..Len(biomes) : inRange(biomes[i], controlValue)
    THEN CHOOSE i \in 1..Len(biomes) :
            /\ inRange(biomes[i], controlValue)
            /\ \A j \in 1..(i - 1) : ~inRange(biomes[j], controlValue)
    ELSE 0

\* { ...primaryBiome.terrainParams }: the biome's own fields, absent ones
\* staying absent
ownParams(tp) ==
    LET x10(v) == IF v = Undefined THEN Undefined ELSE 10 * v IN
    [blended |-> FALSE, seed |-> tp.seed, baseHeight |-> x10(tp.baseHeight),
     scale |-> x10(tp.scale), octaves |-> x10(tp.octaves),
     persistence |-> x10(tp.persistence), lacunarity |-> x10(tp.lacunarity),
     amplitude |-> x10(tp.amplitude)]

blendParams(paramsA, paramsB, alpha) ==
    [blended |-> TRUE, seed |-> paramsA.seed,
     baseHeight |-> lerp(OrDefault(paramsA.baseHeight, 0), OrDefault(paramsB.baseHeight, 0), alpha),
     scale |-> lerp(paramsA.scale, paramsB.scale, alpha),
     octaves |-> lerp(paramsA.octaves, paramsB.octaves, alpha),
     persistence |-> lerp(OrDefault(paramsA.persistence, 5), OrDefault(paramsB.persistence, 5), alpha),
     lacunarity |-> lerp(OrDefault(paramsA.lacunarity, 20), OrDefault(paramsB.lacunarity, 20), alpha),
     amplitude |-> lerp(OrDefault(paramsA.amplitude, 0), OrDefault(paramsB.amplitude, 0), alpha)]

\* the part of getBiomeInfo after the control noise was sampled.  primary and
\* next are positions in the sorted biome list (0: undefined / null); fault
\* tells that the body dereferenced an undefined primaryBiome (TypeError);
\* alpha is the blend factor in tenths.
biomeInfoFor(biomes, controlValue) ==
    LET m == firstMatch(biomes, controlValue)
        primary == IF m # 0 THEN m ELSE Len(biomes)
        next == IF m # 0 /\ m + 1 <= Len(biomes) THEN m + 1 ELSE 0
    IN  IF primary = 0
        THEN [fault |-> TRUE, matched |-> FALSE, primary |-> 0, next |-> 0,
              alpha |-> 0, controlValue |-> controlValue,
              blendedParams |-> [blended |-> FALSE]]
        ELSE LET boundary == biomes[primary].controlRange[2]
                 blend == next # 0 /\ controlValue > boundary - transitionWidth
                 alpha == ((controlValue - (boundary - transitionWidth)) * 10)
                              \div transitionWidth
             IN [fault |-> FALSE, matched |-> m # 0, primary |-> primary, next |-> next,
                 alpha |-> IF blend THEN alpha ELSE 0,
                 controlValue |-> controlValue,
                 blendedParams |->
                    IF blend
                    THEN blendParams(biomes[primary].terrainParams,
                                     biomes[next].terrainParams, alpha)
                    ELSE ownParams(biomes[primary].terrainParams)]

getBiomeInfo(e, worldX, worldZ) ==
    biomeInfoFor(e.biomes,
                 fBm(e.biomeControlNoise, worldX, worldZ, e.terrainParams.biomeControl))

\* the defaults of calculateElevation apply to the fields the argument lacks
elevationParams(biomeParams) ==
    LET dflt(v, d) == IF v = Undefined /\ ~biomeParams.blended THEN d ELSE v IN
    [seed |-> dflt(biomeParams.seed, 0),
     persistence |-> dflt(biomeParams.persistence, 50),
     lacunarity |-> dflt(biomeParams.lacunarity, 200),
     amplitude |-> dflt(biomeParams.amplitude, 10),
     baseHeight |-> dflt(biomeParams.baseHeight, 0),
     scale |-> biomeParams.scale,
     octaves |-> biomeParams.octaves]

\* variant: the amplitude default applied with ||, so that amplitude 0 counts
\* as absent
calculateElevation_AmplitudeOrDefault(e, worldX, worldZ, biomeParams) ==
    LET params == elevationParams(biomeParams)
        noiseVal == fBm(e.noise, worldX, worldZ, params)
    IN  IF noiseVal = NaN THEN NaN
        ELSE params.baseHeight * 100 + noiseVal * OrDefault(params.amplitude, 10)

calculateElevation(e, worldX, worldZ, biomeParams) ==
    LET params == elevationParams(biomeParams)
        noiseVal == fBm(e.noise, worldX, worldZ, params)
    IN  IF noiseVal = NaN THEN NaN
        ELSE params.baseHeight * 100 + noiseVal * params.amplitude

\* world coordinate of grid line x (x2 = 2x) or of the centre of cell x
\* (x2 = 2x + 1): ((x2 / 2) / segments) * extent - extent / 2
worldCoord(x2, segments, extent) ==
    IF segments = 0 THEN NaN
    ELSE (x2 * extent) \div (2 * segments) - extent \div 2

nodeX(e, x) == worldCoord(2 * x, e.segments, e.width)

nodeZ(e, z) == worldCoord(2 * z, e.segments, e.depth)

\* the height map loops of generateStandardTerrain and generateHeightMap;
\* a fault of getBiomeInfo leaves the rows built so far
generateHeightMap(e) ==
    IF e.segments >= 0 /\ getBiomeInfo(e, nodeX(e, 0), nodeZ(e, 0)).fault
    THEN [e EXCEPT !.heightMap = [z \in 0..0 |-> <<>>],
                   !.result = [kind |-> "throw", children |-> <<>>]]
    ELSE [e EXCEPT !.heightMap =
            [z \in 0..e.segments |->
                [x \in 0..e.segments |->
                    calculateElevation(e, nodeX(e, x), nodeZ(e, z),
                        getBiomeInfo(e, nodeX(e, x), nodeZ(e, z)).blendedParams)]]]

(***************************************************************************)
(* TerrainGenerator: mesh building                                         *)
(***************************************************************************)
\* the (x, z) pairs visited by  for (z = 0; z < nz; z++) for (x = 0; x < nx; x++)
loopOrder(nx, nz) ==
    IF nx <= 0 \/ nz <= 0 THEN <<>>
    ELSE [k \in 1..(nx * nz) |-> [x |-> (k - 1) % nx, z |-> (k - 1) \div nx]]

\* buffer.push(...items[1]); buffer.push(...items[2]); ...
RECURSIVE pushAll(_, _)
pushAll(buffer, items) ==
    IF items = <<>> THEN buffer ELSE pushAll(buffer \o Head(items), Tail(items))

\* the position entries pushed for the grid nodes, in row-major order
gridVertices(e) ==
    LET nodes == loopOrder(e.segments + 1, e.segments + 1) IN
    pushAll(<<>>, [k \in 1..Len(nodes) |->
                     <<nodeX(e, nodes[k].x), e.heightMap[nodes[k].z][nodes[k].x],
                       nodeZ(e, nodes[k].z)>>])

\* variant: rows counted with a stride of segments instead of segments + 1
cellTriangles_RowStride(segments, x, z) ==
    LET a == x + segments * z
        b == x + segments * (z + 1)
        c == (x + 1) + segments * (z + 1)
        d == (x + 1) + segments * z
    IN  <<a, b, d, b, c, d>>

\* the two index triples of grid cell (x, z)
cellTriangles(segments, x, z) ==
    LET a == x + (segments + 1) * z
        b == x + (segments + 1) * (z + 1)
        c == (x + 1) + (segments + 1) * (z + 1)
        d == (x + 1) + (segments + 1) * z
    IN  <<a, b, d, b, c, d>>

gridIndices(segments) ==
    LET cells == loopOrder(segments, segments) IN
    pushAll(<<>>, [k \in 1..Len(cells) |-> cellTriangles(segments, cells[k].x, cells[k].z)])

generateStandardTerrain(e) ==
    LET e1 == generateHeightMap(e) IN
    IF e1.result.kind = "throw" THEN e1
    ELSE LET mesh == [present |-> TRUE, vertices |-> gridVertices(e1),
                      indices |-> gridIndices(e1.segments)]
         IN [e1 EXCEPT !.mesh = mesh,
                       !.result = [kind |-> "mesh",
                                   children |-> <<[name |-> "", materialType |-> STANDARD,
                                                   renderOrder |-> 0,
                                                   vertices |-> mesh.vertices,
                                                   indices |-> mesh.indices]>>]]

(***************************************************************************)
(* TerrainGenerator: the multi-material path                               *)
(***************************************************************************)
initializeMaterialGeometry(materialType) ==
    [materialType |-> materialType, vertices |-> <<>>, indices |-> <<>>]

\* variant: without materialGeometries.clear(), a geometry of an earlier call
\* keeps its buffers
initializeMaterialGeometries_KeepBuffers(e) ==
    LET kept(materialType) ==
            IF MapHas(e.materialGeometries, materialType)
            THEN MapGet(e.materialGeometries, materialType)
            ELSE initializeMaterialGeometry(materialType)
        required == [i \in 1..Len(e.materialRequirements) |->
                        kept(e.materialRequirements[i].materialType)]
    IN [e EXCEPT !.materialGeometries =
            IF MapHas(required, STANDARD) THEN required
            ELSE Append(required, kept(STANDARD))]

initializeMaterialGeometries(e) ==
    LET required == [i \in 1..Len(e.materialRequirements) |->
                        initializeMaterialGeometry(e.materialRequirements[i].materialType)]
    IN [e EXCEPT !.materialGeometries =
            IF MapHas(required, STANDARD) THEN required
            ELSE Append(required, initializeMaterialGeometry(STANDARD))]

generateMaterialSpecificVertices(e) ==
    [e EXCEPT !.materialGeometries =
        [i \in 1..Len(e.materialGeometries) |->
            [e.materialGeometries[i] EXCEPT !.vertices = @ \o gridVertices(e)]]]

getVertexMaterialType(e, worldX, worldZ) ==
    classifyBiomeMaterial(e.biomes[getBiomeInfo(e, worldX, worldZ).primary]).materialType

centerX(e, x) == worldCoord(2 * x + 1, e.segments, e.width)

centerZ(e, z) == worldCoord(2 * z + 1, e.segments, e.depth)

\* the index triples that the cell loop appends to the geometry of materialType
indicesFor(e, materialType) ==
    LET cells == loopOrder(e.segments, e.segments) IN
    pushAll(<<>>, [k \in 1..Len(cells) |->
        IF getVertexMaterialType(e, centerX(e, cells[k].x), centerZ(e, cells[k].z)) = materialType
        THEN cellTriangles(e.segments, cells[k].x, cells[k].z)
        ELSE <<>>])

\* variant: every cell appended to every material geometry
generateMaterialSpecificIndices_AllGeometries(e) ==
    [e EXCEPT !.materialGeometries =
        [i \in 1..Len(e.materialGeometries) |->
            [e.materialGeometries[i] EXCEPT !.indices = @ \o gridIndices(e.segments)]]]

generateMaterialSpecificIndices(e) ==
    [e EXCEPT !.materialGeometries =
        [i \in 1..Len(e.materialGeometries) |->
            [e.materialGeometries[i] EXCEPT
                !.indices = @ \o indicesFor(e, e.materialGeometries[i].materialType)]]]

renderOrder == <<STANDARD, GLOWING, WATER, CRYSTAL>>

\* renderOrder.indexOf(materialType)
indexOf(order, materialType) ==
    (CHOOSE i \in 1..Len(order) : order[i] = materialType) - 1

meshName(materialType) ==
    CASE materialType = STANDARD -> "terrain-standard"
      [] materialType = GLOWING -> "terrain-glowing"
      [] materialType = WATER -> "terrain-water"
      [] materialType = CRYSTAL -> "terrain-crystal"

\* whether the mesh loop of createMaterialMeshes skips materialType
skipsMaterial(e, materialType) ==
    \/ ~MapHas(e.materialGeometries, materialType)
    \/ Len(MapGet(e.materialGeometries, materialType).vertices) = 0

RECURSIVE meshesInOrder(_, _)
meshesInOrder(e, order) ==
    IF order = <<>> THEN <<>>
    ELSE IF skipsMaterial(e, Head(order)) THEN meshesInOrder(e, Tail(order))
    ELSE LET geometryData == MapGet(e.materialGeometries, Head(order)) IN
         <<[name |-> meshName(Head(order)), materialType |-> Head(order),
            renderOrder |-> indexOf(renderOrder, Head(order)),
            vertices |-> geometryData.vertices,
            indices |-> geometryData.indices]>> \o meshesInOrder(e, Tail(order))

\* variant: meshes created in the insertion order of materialGeometries
createMaterialMeshes_InsertionOrder(e) ==
    LET meshes == meshesInOrder(e, [i \in 1..Len(e.materialGeometries) |->
                                       e.materialGeometries[i].materialType])
    IN [e EXCEPT !.materialMeshes = meshes,
                 !.result = [kind |-> "group", children |-> meshes]]

createMaterialMeshes(e) ==
    LET meshes == meshesInOrder(e, renderOrder) IN
    [e EXCEPT !.materialMeshes = meshes,
              !.result = [kind |-> "group", children |-> meshes]]

generateMultiMaterialTerrain(e) ==
    LET e1 == generateHeightMap(e) IN
    IF e1.result.kind = "throw" THEN e1
    ELSE createMaterialMeshes(
            generateMaterialSpecificIndices(
                generateMaterialSpecificVertices(
                    initializeMaterialGeometries(e1))))

\* variant: the multi-material path taken only for more than one material type
needsMultiMaterial_SizeOnly(materialRequirements) ==
    Len(materialRequirements) > 1

needsMultiMaterial(materialRequirements) ==
    \/ Len(materialRequirements) > 1
    \/ (Len(materialRequirements) = 1 /\ ~MapHas(materialRequirements, STANDARD))

generateTerrain(e) ==
    LET e1 == [e EXCEPT !.materialRequirements = analyzeMaterialRequirements(e.biomes),
                        !.result = NoResult]
    IN  IF needsMultiMaterial(e1.materialRequirements)
        THEN generateMultiMaterialTerrain(e1)
        ELSE generateStandardTerrain(e1)

regenerate(e, params, rnd) ==
    LET sorted == sortBiomes(params.biomes) IN
    generateTerrain(
        [e EXCEPT !.terrainParams = [params EXCEPT !.biomes = sorted],
                  !.noise = PerlinNoise(Undefined, rnd),
                  !.biomeControlNoise = PerlinNoise(params.biomeControl.seed, rnd),
                  !.width = params.global.width,
                  !.depth = params.global.depth,
                  !.segments = params.global.segments,
                  !.biomes = sorted])

(***************************************************************************)
(* TerrainGenerator: height query                                          *)
(***************************************************************************)
\* variant: row and column exchanged
heightOr0_Transposed(heightMap, z, x) ==
    IF x \in DOMAIN heightMap
    THEN IF z \in DOMAIN heightMap[x] THEN heightMap[x][z] ELSE 0
    ELSE 0

\* variant: a missing row read as height 1 instead of 0
heightOr0_MissingRowAsOne(heightMap, z, x) ==
    IF z \in DOMAIN heightMap
    THEN IF x \in DOMAIN heightMap[z] THEN heightMap[z][x] ELSE 0
    ELSE 1

\* this.heightMap[z] ? this.heightMap[z][x] || 0 : 0
heightOr0(heightMap, z, x) ==
    IF z \in DOMAIN heightMap
    THEN IF x \in DOMAIN heightMap[z] THEN heightMap[z][x] ELSE 0
    ELSE 0

\* variant: the grid coordinate left unclamped
clampedGrid_Unclamped(w, extent, segments) == (2 * w + extent) * segments

\* grid coordinate (w + extent/2) / extent * segments as a number of
\* 1/(2*extent), clamped to [0, segments]
clampedGrid(w, extent, segments) ==
    Max2(0, Min2(segments * 2 * extent, (2 * w + extent) * segments))

\* the result is the fraction num / den; reads are the (z, x) cells looked up
getHeightAtPosition(e, x, z) ==
    LET denX == 2 * e.width
        denZ == 2 * e.depth
        clampedX == clampedGrid(x, e.width, e.segments)
        clampedZ == clampedGrid(z, e.depth, e.segments)
        x0 == clampedX \div denX
        z0 == clampedZ \div denZ
        x1 == Min2(e.segments, x0 + 1)
        z1 == Min2(e.segments, z0 + 1)
        fx == clampedX - x0 * denX
        fz == clampedZ - z0 * denZ
        h00 == heightOr0(e.heightMap, z0, x0)
        h10 == heightOr0(e.heightMap, z0, x1)
        h01 == heightOr0(e.heightMap, z1, x0)
        h11 == heightOr0(e.heightMap, z1, x1)
        h0 == h00 * (denX - fx) + h10 * fx
        h1 == h01 * (denX - fx) + h11 * fx
    IN  [num |-> h0 * (denZ - fz) + h1 * fz, den |-> denX * denZ,
         reads |-> {<<z0, x0>>, <<z0, x1>>, <<z1, x0>>, <<z1, x1>>}]

(***************************************************************************)
(* Inputs of the pure functions                                            *)
(***************************************************************************)
FieldValues == {Undefined, 0, 4, 5, 6, 7, 9}

MaterialSet ==
    {NoMaterial} \cup
    { Material(w, t, r, i, em) :
        w \in BOOLEAN, t \in FieldValues, r \in FieldValues,
        i \in FieldValues, em \in FieldValues }

ControlValues == -100..100

\* world coordinates at which heights are asked: inside the extent, on its
\* border, just outside and far outside
QueryCoords(extent) ==
    LET h == extent \div 2 IN
    ((-h - 1)..(h + 1)) \cup {-h - MaxOut, h + MaxOut, -h - 100 * MaxOut, h + 100 * MaxOut}

(***************************************************************************)
(* State machine                                                           *)
(***************************************************************************)
NoQuery == [asked |-> FALSE, x |-> 0, z |-> 0, height |-> [num |-> 0, den |-> 1, reads |-> {}]]

NoClassification ==
    [done |-> FALSE, material |-> NoMaterial,
     classification |-> [materialType |-> STANDARD, priority |-> 1, coverage |-> 10]]

NoLookup == [done |-> FALSE, info |-> biomeInfoFor(<<>>, 0)]

NoColour == [done |-> FALSE]

NoValidation == [done |-> FALSE]

NoTable == [phase |-> "none"]

NoBlend == [done |-> FALSE]

NoScene == [phase |-> "none"]

NoPlayer == [mode |-> "none"]

NoRiver == [phase |-> "none"]

\* an engine that takes no part in the behaviours of a specification
IdleEngine ==
    Construct([global |-> [width |-> 2, depth |-> 2, segments |-> 1],
               biomeControl |-> [seed |-> 0, scale |-> 1, octaves |-> 2],
               biomes |-> <<Plains>>], 0)

Idle ==
    /\ query = NoQuery
    /\ classified = NoClassification
    /\ lookup = NoLookup
    /\ colour = NoColour
    /\ validated = NoValidation
    /\ perm = NoTable
    /\ blending = NoBlend
    /\ scene = NoScene
    /\ player = NoPlayer
    /\ river = NoRiver

\* const terrainGenerator = new TerrainGenerator(params)
Init ==
    /\ \E params \in ParamsSet, rnd \in RandomSeeds : engine = Construct(params, rnd)
    /\ engine2 = IdleEngine
    /\ Idle

\* terrainGenerator.generateTerrain()
GenerateTerrainAction ==
    /\ engine' = generateTerrain(engine)
    /\ query' = NoQuery
    /\ lookup' = NoLookup
    /\ UNCHANGED <<engine2, classified, colour, validated, perm, blending, scene, player, river>>

\* terrainGenerator.regenerate(params)
RegenerateAction ==
    /\ \E params \in ParamsSet, rnd \in RandomSeeds : engine' = regenerate(engine, params, rnd)
    /\ query' = NoQuery
    /\ lookup' = NoLookup
    /\ UNCHANGED <<engine2, classified, colour, validated, perm, blending, scene, player, river>>

Next == GenerateTerrainAction \/ RegenerateAction

Spec == Init /\ [][Next]_vars

\* terrainGenerator.getHeightAtPosition(x, z)
QueryHeightAction ==
    /\ ~query.asked
    /\ \E x \in QueryCoords(engine.width), z \in QueryCoords(engine.depth) :
          query' = [asked |-> TRUE, x |-> x, z |-> z,
                    height |-> getHeightAtPosition(engine, x, z)]
    /\ UNCHANGED <<engine, engine2, classified, lookup, colour, validated, perm, blending, scene, player, river>>

NextQuery == GenerateTerrainAction \/ QueryHeightAction

SpecQuery == Init /\ [][NextQuery]_vars

\* two fresh engines built from the same parameters
InitDet ==
    /\ \E params \in ParamsSet, rnd1 \in RandomSeeds, rnd2 \in RandomSeeds :
          /\ engine = Construct(params, rnd1)
          /\ engine2 = Construct(params, rnd2)
    /\ Idle

GenerateSecondAction ==
    /\ engine2' = generateTerrain(engine2)
    /\ UNCHANGED <<engine, query, classified, lookup, colour, validated, perm, blending, scene, player, river>>

NextDet == GenerateTerrainAction \/ GenerateSecondAction

SpecDet == InitDet /\ [][NextDet]_vars

\* classifyBiomeMaterial(biome) on a biome with the given material descriptor
ClassifyAction ==
    /\ ~classified.done
    /\ \E m \in MaterialSet :
          classified' = [done |-> TRUE, material |-> m,
                         classification |->
                            classifyBiomeMaterial([Plains EXCEPT !.material = m])]
    /\ UNCHANGED <<engine, engine2, query, lookup, colour, validated, perm, blending, scene, player, river>>

InitClassify ==
    /\ engine = IdleEngine
    /\ engine2 = IdleEngine
    /\ Idle

SpecClassify == InitClassify /\ [][ClassifyAction]_vars

\* the lookup of getBiomeInfo for a control noise sample
LookupAction ==
    /\ ~lookup.done
    /\ \E controlValue \in ControlValues :
          lookup' = [done |-> TRUE, info |-> biomeInfoFor(engine.biomes, controlValue)]
    /\ UNCHANGED <<engine, engine2, query, classified, colour, validated, perm, blending, scene, player, river>>

NextBiome == GenerateTerrainAction \/ LookupAction

SpecBiome == Init /\ [][NextBiome]_vars

(***************************************************************************)
(* Properties                                                              *)
(***************************************************************************)
\* the last generation call returned a terrain
Generated(e) == e.result.kind \in {"mesh", "group"}

RECURSIVE SumTriangles(_)
SumTriangles(meshes) ==
    IF meshes = <<>> THEN 0
    ELSE Len(Head(meshes).indices) \div 3 + SumTriangles(Tail(meshes))

\* how many times the six indices of a cell occur as one cell's entry of an
\* index buffer
Occurrences(indices, six) ==
    Cardinality({ p \in 0..((Len(indices) \div 6) - 1) :
                    SubSeq(indices, 6 * p + 1, 6 * p + 6) = six })

\* C1: in the multi-material path the two triangles of every grid cell are in
\* the index buffer of exactly one emitted sub-mesh, the one of the material
\* classified at the cell's centre, and the triangle counts of the emitted
\* sub-meshes add up to 2 * segments^2.
C1_SplitConservation ==
    engine.result.kind = "group" =>
        LET N == engine.segments
            meshes == engine.result.children
        IN  /\ N >= 1
            /\ SumTriangles(meshes) = 2 * N * N
            /\ \A x \in 0..(N - 1), z \in 0..(N - 1) :
                 \A i \in 1..Len(meshes) :
                    Occurrences(meshes[i].indices, cellTriangles(N, x, z)) =
                        IF meshes[i].materialType =
                              getVertexMaterialType(engine, centerX(engine, x), centerZ(engine, z))
                        THEN 1 ELSE 0
            /\ \A x \in 0..(N - 1), z \in 0..(N - 1) :
                 \E i \in 1..Len(meshes) :
                    meshes[i].materialType =
                        getVertexMaterialType(engine, centerX(engine, x), centerZ(engine, z))

C1_Witness ==
    /\ engine.result.kind = "group"
    /\ engine.segments >= 2
    /\ Cardinality({ i \in 1..Len(engine.result.children) :
                        Len(engine.result.children[i].indices) > 0 }) >= 2

\* C2: two fresh engines built from the same parameters that each ran
\* generateTerrain() hold the same height grid.
C2_Determinism ==
    (/\ engine.terrainParams = engine2.terrainParams
     /\ Generated(engine)
     /\ Generated(engine2)) => engine.heightMap = engine2.heightMap

\* C3: the group returned by the multi-material path contains no sub-mesh
\* with zero triangles.
C3_NoEmptySubMesh ==
    engine.result.kind = "group" =>
        \A i \in 1..Len(engine.result.children) :
            Len(engine.result.children[i].indices) > 0

\* C4: in the standard path the mesh has (N+1)^2 vertices and 6*N*N index
\* entries, every index is below (N+1)^2, and cell (x, z) contributes the
\* triples (a, b, d) and (b, c, d).
C4_GridIndexConsistency ==
    engine.result.kind = "mesh" =>
        LET N == engine.segments
            mesh == engine.result.children[1]
        IN  /\ N >= 1
            /\ Len(mesh.vertices) = 3 * (N + 1) * (N + 1)
            /\ Len(mesh.indices) = 6 * N * N
            /\ \A k \in 1..Len(mesh.indices) :
                  mesh.indices[k] >= 0 /\ mesh.indices[k] < (N + 1) * (N + 1)
            /\ \A x \in 0..(N - 1), z \in 0..(N - 1) :
                  LET a == x + (N + 1) * z
                      b == x + (N + 1) * (z + 1)
                      c == (x + 1) + (N + 1) * (z + 1)
                      d == (x + 1) + (N + 1) * z
                      at == 6 * (z * N + x)
                  IN  /\ SubSeq(mesh.indices, at + 1, at + 6) = <<a, b, d, b, c, d>>
                      /\ Occurrences(mesh.indices, <<a, b, d, b, c, d>>) = 1

C4_Witness ==
    /\ engine.result.kind = "mesh"
    /\ engine.segments >= 2
    /\ Len(engine.result.children[1].indices) >= 24

\* the classification the fixed precedence prescribes
ExpectedClassification(mat) ==
    IF ~mat.present THEN [materialType |-> STANDARD, priority |-> 1]
    ELSE IF mat.isWater THEN [materialType |-> WATER, priority |-> 8]
    ELSE IF mat.transparency > 5 \/ mat.reflectivity > 6 \/ mat.iridescence > 5
         THEN [materialType |-> CRYSTAL, priority |-> 6]
    ELSE IF mat.emission > 4 THEN [materialType |-> GLOWING, priority |-> 4]
    ELSE [materialType |-> STANDARD, priority |-> 1]

\* C5: classifyBiomeMaterial follows the precedence no material => standard,
\* isWater => water, significant transparency / reflectivity / iridescence
\* => crystal, significant emission => glowing, otherwise standard, with
\* priorities 1, 8, 6, 4, 1.
C5_ClassificationPrecedence ==
    classified.done =>
        /\ classified.classification.materialType =
              ExpectedClassification(classified.material).materialType
        /\ classified.classification.priority =
              ExpectedClassification(classified.material).priority

C5_Witness ==
    /\ classified.done
    /\ classified.material.isWater
    /\ classified.material.emission = 9
    /\ classified.material.transparency = 7
    /\ classified.classification.materialType = WATER
    /\ classified.classification.priority = 8

Rank(materialType) ==
    CASE materialType = STANDARD -> 0
      [] materialType = GLOWING -> 1
      [] materialType = WATER -> 2
      [] materialType = CRYSTAL -> 3

\* C6: the sub-meshes of the returned group appear in the order standard,
\* glowing, water, crystal and their renderOrder values increase strictly.
C6_FixedRenderOrder ==
    engine.result.kind = "group" =>
        \A i \in 1..Len(engine.result.children), j \in 1..Len(engine.result.children) :
            i < j =>
                /\ Rank(engine.result.children[i].materialType)
                      < Rank(engine.result.children[j].materialType)
                /\ engine.result.children[i].renderOrder
                      < engine.result.children[j].renderOrder

\* the material types were discovered in another order than the render order
C6_Witness ==
    /\ engine.result.kind = "group"
    /\ Len(engine.result.children) >= 3
    /\ engine.materialGeometries[1].materialType # STANDARD
    /\ engine.materialGeometries[Len(engine.materialGeometries)].materialType = STANDARD

\* C7: a control value that lies in no biome's range resolves to the last
\* biome of the sorted list, also for an empty biome list, and generation
\* completes without an exception.
C7_LookupNeverFaults ==
    /\ engine.result.kind # "throw"
    /\ (lookup.done /\ ~lookup.info.matched) =>
          /\ ~lookup.info.fault
          /\ lookup.info.primary >= 1
          /\ lookup.info.primary = Len(engine.biomes)

Clamp(v, lo, hi) == Max2(lo, Min2(hi, v))

\* C8: a height query at any (x, z) returns the value of the query at the
\* nearest point of the world rectangle and reads only cells of the grid.
C8_QueryClamps ==
    query.asked =>
        LET nearest == getHeightAtPosition(engine,
                          Clamp(query.x, -(engine.width \div 2), engine.width \div 2),
                          Clamp(query.z, -(engine.depth \div 2), engine.depth \div 2))
        IN  /\ query.height.den > 0
            /\ query.height.num * nearest.den = nearest.num * query.height.den
            /\ \A r \in query.height.reads :
                  /\ r[1] \in 0..engine.segments
                  /\ r[2] \in 0..engine.segments
                  /\ Generated(engine) =>
                        r[1] \in DOMAIN engine.heightMap
                        /\ r[2] \in DOMAIN engine.heightMap[r[1]]

C8_Witness ==
    /\ query.asked
    /\ Generated(engine)
    /\ query.x > engine.width \div 2 + MaxOut
    /\ query.z < -(engine.depth \div 2)
    /\ query.height.num # 0

\* C9: after generateTerrain(), a height query at the world coordinates of
\* grid node (i, j) returns heightMap[j][i].
C9_NodeRoundTrip ==
    (query.asked /\ Generated(engine)) =>
        \A i \in 0..engine.segments, j \in 0..engine.segments :
            (query.x = nodeX(engine, i) /\ query.z = nodeZ(engine, j)) =>
                query.height.num = engine.heightMap[j][i] * query.height.den

C9_Witness ==
    /\ query.asked
    /\ Generated(engine)
    /\ engine.segments >= 2
    /\ query.x = nodeX(engine, 1)
    /\ query.z = nodeZ(engine, 2)
    /\ engine.heightMap[2][1] # 0
    /\ engine.heightMap[2][1] # engine.heightMap[1][2]

\* C10: after any sequence of generation calls the height grid has
\* segments + 1 rows of segments + 1 entries for the most recent parameters,
\* each computed from the most recent parameters.
C10_GridMatchesParameters ==
    engine.result.kind # "none" =>
        /\ DOMAIN engine.heightMap = 0..engine.segments
        /\ \A z \in DOMAIN engine.heightMap :
              /\ DOMAIN engine.heightMap[z] = 0..engine.segments
              /\ \A x \in DOMAIN engine.heightMap[z] :
                    engine.heightMap[z][x] =
                        calculateElevation(engine, nodeX(engine, x), nodeZ(engine, z),
                            getBiomeInfo(engine, nodeX(engine, x), nodeZ(engine, z)).blendedParams)

(***************************************************************************)
(* Parameter structures handed to the engine without validation            *)
(***************************************************************************)
\* the smallest global.segments a caller passes
MinSegments == 0 - 1

\* a biome over the whole control domain with amplitude 0 and baseHeight 10
Flat(s, o, p) ==
    BiomeProfile("Flat", -100, 100, NoiseParams(10, s, o, p, 20, 0), NoMaterial)

\* scale 0 and octaves 0
ZeroScale == BiomeProfile("ZeroScale", -100, 100, NoiseParams(0, 0, 0, 5, 20, 5), NoMaterial)

\* persistence 1.0 and lacunarity 1.0
Unstable == BiomeProfile("Unstable", -100, 100, NoiseParams(0, 10, 2, 10, 10, 5), NoMaterial)

RawBiomeLists ==
    { <<Flat(s, o, p)>> : s \in {5, 20}, o \in {1, 4}, p \in {Undefined, 9} }
    \cup { <<ZeroScale>>, <<Unstable>>, <<Plains, Hills>>, <<Lake, Lava>> }

RawParamsSet ==
    { [global |-> [width |-> 2 * Max2(s, 1), depth |-> 2 * Max2(s, 1) * MaxCell,
                   segments |-> s],
       biomeControl |-> [seed |-> cs, scale |-> 1, octaves |-> 2],
       biomes |-> bl] :
        s \in MinSegments..MaxSeg, cs \in 0..(MaxSeed - 1), bl \in RawBiomeLists }

\* new TerrainGenerator(params) by a caller that builds params itself
InitRaw ==
    /\ \E params \in RawParamsSet, rnd \in RandomSeeds : engine = Construct(params, rnd)
    /\ engine2 = IdleEngine
    /\ Idle

\* terrainGenerator.regenerate(params) by a caller that builds params itself
RegenerateRawAction ==
    /\ \E params \in RawParamsSet, rnd \in RandomSeeds :
          engine' = regenerate(engine, params, rnd)
    /\ query' = NoQuery
    /\ lookup' = NoLookup
    /\ UNCHANGED <<engine2, classified, colour, validated, perm, blending, scene, player, river>>

NextRaw == GenerateTerrainAction \/ RegenerateRawAction

SpecRaw == InitRaw /\ [][NextRaw]_vars

\* the parameter records handed to this.noise.fBm by the height map loops
fBmCalls(e) ==
    { elevationParams(getBiomeInfo(e, nodeX(e, x), nodeZ(e, z)).blendedParams) :
        x \in 0..e.segments, z \in 0..e.segments }

\* C11: every fractal noise evaluation of a generation receives scale > 0,
\* octaves >= 1, persistence strictly between 0 and 1 and lacunarity > 1,
\* whatever parameter structure the constructor or regenerate was given.
C11_NoiseParametersClamped ==
    Generated(engine) =>
        /\ engine.terrainParams.biomeControl.scale > 0
        /\ engine.terrainParams.biomeControl.octaves >= 1
        /\ \A p \in fBmCalls(engine) :
              /\ p.scale > 0
              /\ p.octaves >= 10
              /\ p.persistence > 0 /\ p.persistence < 100
              /\ p.lacunarity > 100

\* C12: a segments value below 1 never drives mesh generation: a terrain is
\* returned only for segments >= 1 and the mesh of the standard path has a
\* non-empty index buffer.
C12_SegmentsAtLeastOne ==
    Generated(engine) =>
        /\ engine.segments >= 1
        /\ engine.result.kind = "mesh" => Len(engine.result.children[1].indices) > 0

\* the engine holds a single biome over the whole control domain with
\* amplitude 0 and baseHeight 10
FlatEngine(e) ==
    /\ Len(e.biomes) = 1
    /\ e.biomes[1].controlRange = <<-100, 100>>
    /\ e.biomes[1].terrainParams.amplitude = 0
    /\ e.biomes[1].terrainParams.baseHeight = 10
    /\ e.segments >= 1

\* C16: with a single biome over the whole control domain whose amplitude is
\* 0 and whose baseHeight is 10, every entry of the generated height grid
\* is 10 (10000 thousandths), for every scale, octave count, persistence and
\* noise seed.
C16_FlatBiome ==
    (Generated(engine) /\ FlatEngine(engine)) =>
        /\ DOMAIN engine.heightMap = 0..engine.segments
        /\ \A z \in DOMAIN engine.heightMap :
              /\ DOMAIN engine.heightMap[z] = 0..engine.segments
              /\ \A x \in DOMAIN engine.heightMap[z] : engine.heightMap[z][x] = 10000

C16_Witness ==
    /\ Generated(engine)
    /\ FlatEngine(engine)
    /\ engine.segments >= 2
    /\ engine.biomes[1].terrainParams.octaves = 4
    /\ engine.biomes[1].terrainParams.scale = 20
    /\ engine.noise.seed = 1
    /\ fBm(engine.noise, nodeX(engine, 1), nodeZ(engine, 1),
           elevationParams(ownParams(engine.biomes[1].terrainParams))) # 0

(***************************************************************************)
(* Choice of the generation path                                           *)
(***************************************************************************)
\* the distinct material classifications of a biome list
ClassificationsOf(biomes) ==
    { classifyBiomeMaterial(biomes[i]).materialType : i \in 1..Len(biomes) }

\* C17: generateTerrain takes the multi-material path if and only if the
\* biomes yield more than one distinct material classification or their
\* single classification is not standard; biomes that all classify as
\* standard take the single-mesh standard path.
C17_MultiMaterialIff ==
    Generated(engine) =>
        LET types == ClassificationsOf(engine.biomes) IN
        /\ engine.result.kind = "group" <=>
              \/ Cardinality(types) > 1
              \/ (Cardinality(types) = 1 /\ types # {STANDARD})
        /\ types = {STANDARD} => engine.result.kind = "mesh"

C17_Witness ==
    /\ engine.result.kind = "group"
    /\ Len(engine.biomes) = 1
    /\ ClassificationsOf(engine.biomes) = {CRYSTAL}

(***************************************************************************)
(* Height query before any generation                                      *)
(***************************************************************************)
\* C18: on an engine on which generateTerrain has never run (empty height
\* grid) getHeightAtPosition returns 0 for every (x, z).
C18_ZeroBeforeGeneration ==
    (query.asked /\ engine.result.kind = "none") =>
        /\ engine.heightMap = <<>>
        /\ query.height.den > 0
        /\ query.height.num = 0

C18_Witness ==
    /\ query.asked
    /\ engine.result.kind = "none"
    /\ engine.heightMap = <<>>
    /\ engine.segments >= 2
    /\ query.x = nodeX(engine, 1)
    /\ query.z > engine.depth \div 2
    /\ query.height.num = 0

(***************************************************************************)
(* Width of the blend band                                                 *)
(***************************************************************************)
\* ten times a * (1 - n/d) + b * (n/d), times d
LerpTimes(a, b, n, d) == 10 * (a * (d - n) + b * n)

\* C20: blending toward the next biome happens exactly when a next biome
\* exists and the control value lies within the last 10% of the primary
\* biome's own range width before its upper boundary (bandWidth =
\* 0.1 * (hi - lo)); then every scalar parameter is lerp(A, B, alpha) with
\* alpha = (value - (boundary - bandWidth)) / bandWidth, and outside the band
\* the primary biome's parameters are used unchanged.
C20_BandIsTenthOfRange ==
    (lookup.done /\ ~lookup.info.fault) =>
        LET info == lookup.info
            A == engine.biomes[info.primary].terrainParams
            lo == engine.biomes[info.primary].controlRange[1]
            hi == engine.biomes[info.primary].controlRange[2]
            \* alpha = n / d
            d == hi - lo
            n == 10 * info.controlValue - 10 * hi + d
            inBand == info.next # 0 /\ n > 0
        IN  /\ info.blendedParams.blended <=> inBand
            /\ ~inBand => info.blendedParams = ownParams(A)
            /\ inBand =>
                  LET B == engine.biomes[info.next].terrainParams
                      P == info.blendedParams
                  IN  /\ P.scale * d = LerpTimes(A.scale, B.scale, n, d)
                      /\ P.octaves * d = LerpTimes(A.octaves, B.octaves, n, d)
                      /\ P.baseHeight * d =
                            LerpTimes(OrDefault(A.baseHeight, 0), OrDefault(B.baseHeight, 0), n, d)
                      /\ P.amplitude * d =
                            LerpTimes(OrDefault(A.amplitude, 0), OrDefault(B.amplitude, 0), n, d)
                      /\ P.persistence * d =
                            LerpTimes(OrDefault(A.persistence, 5), OrDefault(B.persistence, 5), n, d)
                      /\ P.lacunarity * d =
                            LerpTimes(OrDefault(A.lacunarity, 20), OrDefault(B.lacunarity, 20), n, d)

\* the same statement for the biomes whose control range has width 1, where
\* 10% of the width is the fixed 0.1 of the code
C20_BandOnUnitRanges ==
    (lookup.done /\ ~lookup.info.fault
       /\ engine.biomes[lookup.info.primary].controlRange[2]
             - engine.biomes[lookup.info.primary].controlRange[1] = 100)
        => C20_BandIsTenthOfRange

(***************************************************************************)
(* TerrainGenerator: colour ramps                                          *)
(* Stops are hundredths, colour channels tenths, heights units.  A         *)
(* resolved colour is the fraction (r, g, b) / den per channel.            *)
(***************************************************************************)
\* largest height offered to the colour resolution, in units
MaxRampHeight == 60

Color(r, g, b) == [r |-> r, g |-> g, b |-> b]

ColorStop(stop, color) == [stop |-> stop, color |-> color]

\* { r: 1, g: 0, b: 1 }
Magenta == Color(10, 0, 10)

\* normalizedHeight = (height - minBiomeHeight) / (maxBiomeHeight -
\* minBiomeHeight) as the fraction num / den with den >= 0; den = 0 stands
\* for the quotients NaN, Infinity and -Infinity
normalizedHeight(biome, height) ==
    LET baseHeight == OrDefault(biome.terrainParams.baseHeight, 0)
        amplitude == OrDefault(biome.terrainParams.amplitude, 0)
        minBiomeHeight == baseHeight - amplitude
        maxBiomeHeight == baseHeight + amplitude
        num == height - minBiomeHeight
        den == maxBiomeHeight - minBiomeHeight
    IN  IF den < 0 THEN [num |-> 0 - num, den |-> 0 - den]
        ELSE [num |-> num, den |-> den]

\* normalizedHeight >= start.stop && normalizedHeight <= end.stop
inRampSegment(nh, start, end) ==
    /\ nh.den > 0
    /\ 100 * nh.num >= start.stop * nh.den
    /\ 100 * nh.num <= end.stop * nh.den

\* the index at which the ramp loop breaks, 0 when it runs to its end
rampSegment(ramp, nh) ==
    IF \E i \in 1..(Len(ramp) - 1) : inRampSegment(nh, ramp[i], ramp[i + 1])
    THEN CHOOSE i \in 1..(Len(ramp) - 1) :
            /\ inRampSegment(nh, ramp[i], ramp[i + 1])
            /\ \A j \in 1..(i - 1) : ~inRampSegment(nh, ramp[j], ramp[j + 1])
    ELSE 0

\* a colour that was not interpolated
plainColor(color) == [r |-> color.r, g |-> color.g, b |-> color.b, den |-> 1]

\* variant: the colour of the segment's start stop, without interpolation
getBiomeTerrainColor_StartOfSegment(biome, height) ==
    LET ramp == biome.colorRamp
        nh == normalizedHeight(biome, height)
        i == rampSegment(ramp, nh)
    IN  IF Len(ramp) = 0 THEN plainColor(Magenta)
        ELSE IF i = 0 THEN plainColor(ramp[Len(ramp)].color)
        ELSE plainColor(ramp[i].color)

getBiomeTerrainColor(biome, height) ==
    LET ramp == biome.colorRamp
        nh == normalizedHeight(biome, height)
        i == rampSegment(ramp, nh)
    IN  IF Len(ramp) = 0 THEN plainColor(Magenta)
        ELSE IF i = 0 THEN plainColor(ramp[Len(ramp)].color)
        ELSE LET start == ramp[i]
                 end == ramp[i + 1]
                 \* t = tn / td
                 tn == 100 * nh.num - start.stop * nh.den
                 td == (end.stop - start.stop) * nh.den
             IN  IF td = 0 THEN [r |-> NaN, g |-> NaN, b |-> NaN, den |-> 1]
                 ELSE [r |-> start.color.r * (td - tn) + end.color.r * tn,
                       g |-> start.color.g * (td - tn) + end.color.g * tn,
                       b |-> start.color.b * (td - tn) + end.color.b * tn,
                       den |-> td]

\* colour ramps with strictly increasing stops
Ramps ==
    { <<>>,
      <<ColorStop(50, Color(5, 5, 5))>>,
      <<ColorStop(0, Color(10, 0, 0)), ColorStop(100, Color(0, 0, 10))>>,
      <<ColorStop(0, Color(10, 0, 0)), ColorStop(30, Color(0, 10, 0)),
        ColorStop(100, Color(0, 0, 10))>>,
      <<ColorStop(20, Color(2, 4, 6)), ColorStop(50, Color(10, 10, 0)),
        ColorStop(80, Color(0, 3, 9))>> }

\* biomes with a colour ramp; the height range is baseHeight +- amplitude
RampBiomes ==
    { [name |-> "Ramp", controlRange |-> <<-100, 100>>,
       terrainParams |-> NoiseParams(tp[1], 10, 2, 5, 20, tp[2]),
       material |-> NoMaterial, colorRamp |-> ramp] :
        tp \in { <<0, 50>>, <<10, 25>>, <<Undefined, 50>>, <<10, 0>>, <<10, Undefined>> },
        ramp \in Ramps }

InitColour ==
    /\ engine = IdleEngine
    /\ engine2 = IdleEngine
    /\ Idle

\* getBiomeTerrainColor(biome, height)
ColourAction ==
    /\ ~colour.done
    /\ \E biome \in RampBiomes, height \in (0 - MaxRampHeight)..MaxRampHeight :
          colour' = [done |-> TRUE, biome |-> biome, height |-> height,
                     color |-> getBiomeTerrainColor(biome, height)]
    /\ UNCHANGED <<engine, engine2, query, classified, lookup, validated, perm, blending, scene, player, river>>

SpecColour == InitColour /\ [][ColourAction]_vars

\* the resolved colour is exactly the colour c
IsColor(resolved, c) ==
    /\ resolved.den # 0
    /\ resolved.r = c.r * resolved.den
    /\ resolved.g = c.g * resolved.den
    /\ resolved.b = c.b * resolved.den

\* the normalized height of the resolution is a number (not NaN or +-Infinity)
FiniteHeight == normalizedHeight(colour.biome, colour.height).den > 0

\* C14: for a biome with a non-empty ramp, a normalized height below the
\* first stop resolves to the first stop's colour and a normalized height
\* above the last stop resolves to the last stop's colour.
C14_RampClampsAtEnds ==
    (colour.done /\ Len(colour.biome.colorRamp) > 0 /\ FiniteHeight) =>
        LET ramp == colour.biome.colorRamp
            nh == normalizedHeight(colour.biome, colour.height)
        IN  /\ 100 * nh.num < ramp[1].stop * nh.den =>
                  IsColor(colour.color, ramp[1].color)
            /\ 100 * nh.num > ramp[Len(ramp)].stop * nh.den =>
                  IsColor(colour.color, ramp[Len(ramp)].color)

\* the half of C14 about heights above the last stop
C14_ClampsAboveLastStop ==
    (colour.done /\ Len(colour.biome.colorRamp) > 0 /\ FiniteHeight) =>
        LET ramp == colour.biome.colorRamp
            nh == normalizedHeight(colour.biome, colour.height)
        IN  100 * nh.num > ramp[Len(ramp)].stop * nh.den =>
                IsColor(colour.color, ramp[Len(ramp)].color)

\* C15: for a ramp with strictly increasing stops, a normalized height equal
\* to stop i resolves to colors[i] exactly, and a height strictly between
\* stops i and i+1 resolves to the linear interpolation of colors[i] and
\* colors[i+1] at t = (h - si) / (si+1 - si).
C15_RampStopsAndSegments ==
    (colour.done /\ FiniteHeight) =>
        LET ramp == colour.biome.colorRamp
            nh == normalizedHeight(colour.biome, colour.height)
            c == colour.color
        IN  /\ \A i \in 1..Len(ramp) :
                  100 * nh.num = ramp[i].stop * nh.den => IsColor(c, ramp[i].color)
            /\ \A i \in 1..(Len(ramp) - 1) :
                  (/\ 100 * nh.num > ramp[i].stop * nh.den
                   /\ 100 * nh.num < ramp[i + 1].stop * nh.den) =>
                      LET tn == 100 * nh.num - ramp[i].stop * nh.den
                          td == (ramp[i + 1].stop - ramp[i].stop) * nh.den
                          mix(a, b) == a * (td - tn) + b * tn
                      IN  /\ c.den # 0
                          /\ c.r * td = mix(ramp[i].color.r, ramp[i + 1].color.r) * c.den
                          /\ c.g * td = mix(ramp[i].color.g, ramp[i + 1].color.g) * c.den
                          /\ c.b * td = mix(ramp[i].color.b, ramp[i + 1].color.b) * c.den

\* a height exactly on the middle stop of a three-stop ramp
C15_Witness ==
    /\ colour.done
    /\ FiniteHeight
    /\ Len(colour.biome.colorRamp) = 3
    /\ 100 * normalizedHeight(colour.biome, colour.height).num =
          colour.biome.colorRamp[2].stop * normalizedHeight(colour.biome, colour.height).den
    /\ IsColor(colour.color, colour.biome.colorRamp[2].color)
    /\ colour.biome.colorRamp[2].color # colour.biome.colorRamp[1].color

(***************************************************************************)
(* validateUnlimitedParameters (api.ts)                                    *)
(* Units of this section: scale in millionths, octaves in tenths before    *)
(* rounding and in units after it, persistence, lacunarity, control range  *)
(* bounds, ramp stops, intensities and atmosphereStrength in hundredths,   *)
(* material fields in tenths, colour channels in tenths on input and in    *)
(* 1/2550 on output.  An absent object is the object whose fields are all  *)
(* absent, which is what  x || {}  makes of it; an array that may be       *)
(* absent carries a present flag.                                          *)
(***************************************************************************)
\* Math.round of a number of tenths
RoundTenths(t) == (t + 5) \div 10

\* Math.min(Math.max(v, lo), hi); an absent v makes Math.max return NaN
ClampJS(v, lo, hi) == IF v = Undefined \/ v = NaN THEN NaN ELSE Min2(Max2(v, lo), hi)

Defined(v, d) == IF v # Undefined THEN v ELSE d

NoColor == Color(Undefined, Undefined, Undefined)

safeColor(color, fallback) ==
    LET r == Defined(color.r, fallback.r)
        g == Defined(color.g, fallback.g)
        b == Defined(color.b, fallback.b)
        convert == r > 10 \/ g > 10 \/ b > 10
        out(c) == Min2(Max2(IF convert THEN c ELSE 255 * c, 0), 2550)
    IN  Color(out(r), out(g), out(b))

Layer(seed, scale, octaves, persistence, lacunarity, amplitude, baseHeight) ==
    [seed |-> seed, scale |-> scale, octaves |-> octaves, persistence |-> persistence,
     lacunarity |-> lacunarity, amplitude |-> amplitude, baseHeight |-> baseHeight]

NoLayer == Layer(Undefined, Undefined, Undefined, Undefined, Undefined, Undefined, Undefined)

\* rnd is the draw of Math.floor(Math.random() * 65536)
safeNoise(layer, rnd) ==
    Layer(Defined(layer.seed, rnd),
          Max2(OrDefault(layer.scale, 10000), 1),
          Min2(Max2(RoundTenths(OrDefault(layer.octaves, 40)), 1), 16),
          Min2(Max2(OrDefault(layer.persistence, 50), 1), 99),
          Max2(OrDefault(layer.lacunarity, 200), 101),
          Defined(layer.amplitude, 50),
          Defined(layer.baseHeight, 0))

\* the biome pushed into an empty biome list
DefaultBiome ==
    [name |-> "Default",
     controlRange |-> [present |-> TRUE, lo |-> -100, hi |-> 100],
     terrainParams |-> Layer(Undefined, 10000, 40, 50, 200, 20, 10),
     colorRamp |-> [present |-> TRUE, stops |-> <<ColorStop(0, Color(10, 0, 10))>>],
     material |-> NoMaterial]

validateMaterial(mat) ==
    LET clamp(v) == IF v # Undefined THEN Min2(Max2(v, 0), 10) ELSE Undefined IN
    IF ~mat.present THEN mat
    ELSE [present |-> TRUE, isWater |-> mat.isWater,
          transparency |-> clamp(mat.transparency),
          reflectivity |-> clamp(mat.reflectivity),
          iridescence |-> clamp(mat.iridescence),
          emission |-> clamp(mat.emission)]

validateBiome(biome, rnd) ==
    LET controlRange == IF biome.controlRange.present THEN biome.controlRange
                        ELSE [present |-> TRUE, lo |-> -100, hi |-> 100]
        colorRamp == IF biome.colorRamp.present THEN biome.colorRamp.stops
                     ELSE <<ColorStop(0, Color(10, 0, 10))>>
    IN  [name |-> biome.name,
         controlRange |-> <<ClampJS(controlRange.lo, -100, 100),
                            ClampJS(controlRange.hi, -100, 100)>>,
         terrainParams |-> safeNoise(biome.terrainParams, rnd),
         colorRamp |-> [i \in 1..Len(colorRamp) |->
                          ColorStop(Min2(Max2(OrDefault(colorRamp[i].stop, 0), 0), 100),
                                    safeColor(colorRamp[i].color, Color(5, 5, 5)))],
         material |-> validateMaterial(biome.material)]

validateUnlimitedParameters(params, rnd) ==
    LET biomes == IF Len(params.biomes) = 0 THEN <<DefaultBiome>> ELSE params.biomes IN
    [global |->
        [width |-> Max2(OrDefault(params.global.width, 2000), 100),
         depth |-> Max2(OrDefault(params.global.depth, 2000), 100),
         maxHeight |-> Defined(params.global.maxHeight, 300),
         segments |-> Min2(Max2(OrDefault(params.global.segments, 1000), 50), 2000),
         offset |-> OrDefault(params.global.offset, 0)],
     skybox |->
        [horizonColor |-> safeColor(params.skybox.horizonColor, Color(6, 8, 10)),
         zenithColor |-> safeColor(params.skybox.zenithColor, Color(0, 1, 3)),
         atmosphereColor |-> safeColor(params.skybox.atmosphereColor, Color(5, 5, 7)),
         atmosphereStrength |-> Max2(OrDefault(params.skybox.atmosphereStrength, 5), 0)],
     lighting |->
        [ambient |->
            [color |-> safeColor(params.lighting.ambient.color, Color(1, 1, 2)),
             intensity |-> Max2(Defined(params.lighting.ambient.intensity, 30), 0)],
         directional |->
            [color |-> safeColor(params.lighting.directional.color, Color(8, 8, 8)),
             intensity |-> Max2(Defined(params.lighting.directional.intensity, 50), 0)]],
     terrain |->
        [base |-> safeNoise(params.terrain.base, rnd),
         mountains |-> safeNoise(params.terrain.mountains, rnd),
         details |-> safeNoise(params.terrain.details, rnd)],
     environment |->
        [temperature |-> safeNoise(params.environment.temperature, rnd),
         moisture |-> safeNoise(params.environment.moisture, rnd)],
     biomeControl |->
        [seed |-> Defined(params.biomeControl.seed, rnd),
         scale |-> Max2(OrDefault(params.biomeControl.scale, 1000), 1),
         octaves |-> Min2(Max2(RoundTenths(OrDefault(params.biomeControl.octaves, 20)), 1), 8)],
     biomes |-> [i \in 1..Len(biomes) |-> validateBiome(biomes[i], rnd)]]

(***************************************************************************)
(* Objects handed to validateUnlimitedParameters                           *)
(***************************************************************************)
SegmentInputs == {Undefined, -5, 0, 49, 50, 1000, 2001}

LayerInputs ==
    { Layer(Undefined, sc, oc, pe, la, Undefined, Undefined) :
        sc \in {Undefined, 0, -5},
        oc \in {Undefined, 0, 25, 200},
        pe \in {Undefined, 0, 100},
        la \in {Undefined, 100, 200} }
    \cup { Layer(7, 1, 160, 99, 101, 0, 5) }

RangeInputs ==
    { [present |-> FALSE, lo |-> Undefined, hi |-> Undefined] }
    \cup { [present |-> TRUE, lo |-> lo, hi |-> hi] :
             lo \in {Undefined, -250, -100, 30}, hi \in {Undefined, 50, 100, 250} }

RampInputs ==
    { [present |-> FALSE, stops |-> <<>>],
      [present |-> TRUE,
       stops |-> <<ColorStop(Undefined, NoColor), ColorStop(150, Color(255, 128, 0))>>] }

BiomeInput(cr, layer, ramp, mat) ==
    [name |-> "Input", controlRange |-> cr, terrainParams |-> layer,
     colorRamp |-> ramp, material |-> mat]

\* the biome lists of the input: absent or empty, one biome, two biomes
BiomeListInputs(layer) ==
    { <<>> }
    \cup { <<BiomeInput(cr, layer, [present |-> FALSE, stops |-> <<>>], NoMaterial)>> :
             cr \in RangeInputs }
    \cup { <<BiomeInput([present |-> TRUE, lo |-> -100, hi |-> 100], layer, ramp,
                        NoMaterial)>> : ramp \in RampInputs }
    \cup { <<BiomeInput(cr, NoLayer, [present |-> FALSE, stops |-> <<>>],
                        Material(FALSE, 15, Undefined, -2, 4)),
             BiomeInput([present |-> FALSE, lo |-> Undefined, hi |-> Undefined], layer,
                        [present |-> FALSE, stops |-> <<>>], NoMaterial)>> :
             cr \in RangeInputs }

ValidationInput(seg, layer, biomes, given) ==
    [global |-> [width |-> IF given THEN 50 ELSE Undefined,
                 depth |-> IF given THEN 4000 ELSE Undefined,
                 maxHeight |-> IF given THEN -20 ELSE Undefined,
                 segments |-> seg,
                 offset |-> Undefined],
     skybox |-> [horizonColor |-> IF given THEN Color(255, 0, 128) ELSE NoColor,
                 zenithColor |-> IF given THEN Color(3, Undefined, -2) ELSE NoColor,
                 atmosphereColor |-> NoColor,
                 atmosphereStrength |-> IF given THEN -10 ELSE Undefined],
     lighting |-> [ambient |-> [color |-> NoColor,
                                intensity |-> IF given THEN 0 ELSE Undefined],
                   directional |-> [color |-> NoColor,
                                    intensity |-> IF given THEN -5 ELSE Undefined]],
     terrain |-> [base |-> layer, mountains |-> IF given THEN layer ELSE NoLayer,
                  details |-> NoLayer],
     environment |-> [temperature |-> IF given THEN NoLayer ELSE layer, moisture |-> layer],
     biomeControl |-> [seed |-> IF given THEN 3 ELSE Undefined,
                       scale |-> layer.scale, octaves |-> layer.octaves],
     biomes |-> biomes]

InitValidate ==
    /\ engine = IdleEngine
    /\ engine2 = IdleEngine
    /\ Idle

\* validateUnlimitedParameters(parsedData)
ValidateAction ==
    /\ ~validated.done
    /\ \E seg \in SegmentInputs, layer \in LayerInputs, given \in BOOLEAN, rnd \in RandomSeeds :
          \E biomes \in BiomeListInputs(layer) :
              validated' = [done |-> TRUE,
                            input |-> ValidationInput(seg, layer, biomes, given),
                            output |-> validateUnlimitedParameters(
                                          ValidationInput(seg, layer, biomes, given), rnd)]
    /\ UNCHANGED <<engine, engine2, query, classified, lookup, colour, perm, blending, scene, player, river>>

SpecValidate == InitValidate /\ [][ValidateAction]_vars

\* the noise layers of a validated structure
LayersOf(out) ==
    {out.terrain.base, out.terrain.mountains, out.terrain.details,
     out.environment.temperature, out.environment.moisture}
    \cup { out.biomes[i].terrainParams : i \in 1..Len(out.biomes) }

SafeLayers(out) ==
    \A layer \in LayersOf(out) :
        /\ layer.octaves \in 1..16
        /\ layer.persistence >= 1 /\ layer.persistence <= 99
        /\ layer.lacunarity >= 101
        /\ layer.scale >= 1

\* C13: for every input object the structure returned by
\* validateUnlimitedParameters has segments in [50, 2000], every noise layer
\* with integer octaves in [1, 16], persistence in [0.01, 0.99], lacunarity
\* >= 1.01 and scale >= 0.000001, a non-empty biome list, and every
\* controlRange bound in [-1, 1].
C13_ValidatedStructure ==
    validated.done =>
        LET out == validated.output IN
        /\ out.global.segments >= 50 /\ out.global.segments <= 2000
        /\ SafeLayers(out)
        /\ Len(out.biomes) >= 1
        /\ \A i \in 1..Len(out.biomes) :
              /\ out.biomes[i].controlRange[1] >= -100 /\ out.biomes[i].controlRange[1] <= 100
              /\ out.biomes[i].controlRange[2] >= -100 /\ out.biomes[i].controlRange[2] <= 100

\* the input's controlRange arrays are absent or hold both bounds
CompleteRanges(input) ==
    \A i \in 1..Len(input.biomes) :
        input.biomes[i].controlRange.present =>
            /\ input.biomes[i].controlRange.lo # Undefined
            /\ input.biomes[i].controlRange.hi # Undefined

\* the statement of C13 for the inputs whose controlRange arrays are absent
\* or hold both bounds
C13_ValidatedCompleteRanges ==
    (validated.done /\ CompleteRanges(validated.input)) => C13_ValidatedStructure

(***************************************************************************)
(* PerlinNoise: the permutation table                                      *)
(* A 32-bit word is the pair <<hi, lo>> of its 16-bit halves.              *)
(***************************************************************************)
\* number of seeds for which the table is built
MaxTableSeed == 2

\* coordinates offered to noise(), as the values of Math.floor(x) & 255
MaxLattice == 2

Half == 65536

RECURSIVE Xor16(_, _, _)
Xor16(x, y, bits) ==
    IF bits = 0 THEN 0
    ELSE ((x + y) % 2) + 2 * Xor16(x \div 2, y \div 2, bits - 1)

RECURSIVE Or16(_, _, _)
Or16(x, y, bits) ==
    IF bits = 0 THEN 0
    ELSE (IF x % 2 = 1 \/ y % 2 = 1 THEN 1 ELSE 0) + 2 * Or16(x \div 2, y \div 2, bits - 1)

\* a ^ b
Xor32(a, b) == <<Xor16(a[1], b[1], 16), Xor16(a[2], b[2], 16)>>

\* a | k for a constant k < 65536
OrSmall(a, k) == <<a[1], Or16(a[2], k, 16)>>

\* (a + b) | 0
Add32(a, b) ==
    LET lo == a[2] + b[2] IN
    <<(a[1] + b[1] + lo \div Half) % Half, lo % Half>>

RECURSIVE Pow2(_)
Pow2(k) == IF k = 0 THEN 1 ELSE 2 * Pow2(k - 1)

\* a >>> k for 0 < k < 16
Shr32(a, k) ==
    <<a[1] \div Pow2(k), a[2] \div Pow2(k) + (a[1] % Pow2(k)) * Pow2(16 - k)>>

\* the four bytes of a word, least significant first
Bytes(a) == <<a[2] % 256, a[2] \div 256, a[1] % 256, a[1] \div 256>>

\* Math.imul(a, b): the low 32 bits of the product, by columns of bytes
Imul32(a, b) ==
    LET x == Bytes(a)
        y == Bytes(b)
        c0 == x[1] * y[1]
        c1 == x[1] * y[2] + x[2] * y[1] + c0 \div 256
        c2 == x[1] * y[3] + x[2] * y[2] + x[3] * y[1] + c1 \div 256
        c3 == x[1] * y[4] + x[2] * y[3] + x[3] * y[2] + x[4] * y[1] + c2 \div 256
    IN  <<(c2 % 256) + 256 * (c3 % 256), (c0 % 256) + 256 * (c1 % 256)>>

\* one call of the function returned by mulberry32: the new value of a and
\* the numerator of the result over 4294967296
mulberry32(a) ==
    LET a1 == Add32(a, <<27947, 31221>>)
        t1 == Imul32(Xor32(a1, Shr32(a1, 15)), OrSmall(a1, 1))
        t2 == Xor32(Add32(t1, Imul32(Xor32(t1, Shr32(t1, 7)), OrSmall(t1, 61))), t1)
    IN  [a |-> a1, value |-> Xor32(t2, Shr32(t2, 14))]

\* Math.floor(rand() * n) for rand() = value / 4294967296 and n <= 256
floorTimes(value, n) == (value[1] * n + (value[2] * n) \div Half) \div Half

\* variant: p[i] = p[j] without storing the old p[i] in p[j]
swap_Overwrite(p, i, j) == [p EXCEPT ![i + 1] = p[j + 1]]

\* tmp = p[i]; p[i] = p[j]; p[j] = tmp   (p[k] of the code is p[k + 1] here)
swap(p, i, j) == [p EXCEPT ![i + 1] = p[j + 1], ![j + 1] = p[i + 1]]

TableSeeds == 0..(MaxTableSeed - 1)

\* the values of Math.floor(x) offered to noise()
Lattice == (0 - MaxLattice)..(255 + MaxLattice)

\* variant: the coordinate used without the mask
mask255_Unmasked(v) == v

\* Math.floor(x) & 255
mask255(v) == v % 256

\* this.permutation[k]; a read outside the table yields undefined
tableAt(permutation, k) ==
    IF k # NaN /\ k >= 0 /\ k < Len(permutation) THEN permutation[k + 1] ELSE Undefined

\* this.permutation[k] + n; undefined + n is NaN
tablePlus(permutation, k, n) ==
    IF tableAt(permutation, k) = Undefined THEN NaN ELSE tableAt(permutation, k) + n

\* k + 1, NaN staying NaN
succIndex(k) == IF k = NaN THEN NaN ELSE k + 1

InitTable ==
    /\ engine = IdleEngine
    /\ engine2 = IdleEngine
    /\ Idle

\* new PerlinNoise(seed): generatePermutation up to the start of the shuffle
StartPermutationAction ==
    /\ perm.phase = "none"
    /\ \E seed \in TableSeeds :
          perm' = [phase |-> "shuffle", seed |-> seed, a |-> <<0, seed>>,
                   p |-> [k \in 1..256 |-> k - 1], i |-> 255,
                   permutation |-> <<>>, reads |-> {}]
    /\ UNCHANGED <<engine, engine2, query, classified, lookup, colour, validated, blending, scene, player, river>>

\* one round of the Fisher-Yates loop
ShuffleStepAction ==
    /\ perm.phase = "shuffle"
    /\ perm.i > 0
    /\ LET rand == mulberry32(perm.a)
           j == floorTimes(rand.value, perm.i + 1)
       IN  perm' = [perm EXCEPT !.a = rand.a, !.p = swap(perm.p, perm.i, j),
                                !.i = perm.i - 1]
    /\ UNCHANGED <<engine, engine2, query, classified, lookup, colour, validated, blending, scene, player, river>>

\* the loop has ended: the table is p followed by p
DuplicateAction ==
    /\ perm.phase = "shuffle"
    /\ perm.i = 0
    /\ perm' = [perm EXCEPT !.phase = "done", !.permutation = perm.p \o perm.p]
    /\ UNCHANGED <<engine, engine2, query, classified, lookup, colour, validated, blending, scene, player, river>>

\* the table indices read by noise(x, y, z) for X = Math.floor(x) & 255, ...
noiseReads(permutation, X, Y, Z) ==
    LET A == tablePlus(permutation, X, Y)
        AA == tablePlus(permutation, A, Z)
        AB == tablePlus(permutation, succIndex(A), Z)
        B == tablePlus(permutation, X + 1, Y)
        BA == tablePlus(permutation, B, Z)
        BB == tablePlus(permutation, succIndex(B), Z)
    IN  {X, X + 1, A, succIndex(A), B, succIndex(B), AA, BA, AB, BB,
         succIndex(AA), succIndex(BA), succIndex(AB), succIndex(BB)}

\* the first noise(x, y, z) call on the constructed generator
NoiseAction ==
    /\ perm.phase = "done"
    /\ perm.reads = {}
    /\ \E x \in Lattice, y \in {0 - MaxLattice, 0, 255, 255 + MaxLattice}, z \in {0, 255} :
          perm' = [perm EXCEPT !.reads =
                      noiseReads(perm.permutation, mask255(x), mask255(y), mask255(z))]
    /\ UNCHANGED <<engine, engine2, query, classified, lookup, colour, validated, blending, scene, player, river>>

NextTable ==
    StartPermutationAction \/ ShuffleStepAction \/ DuplicateAction \/ NoiseAction

SpecTable == InitTable /\ [][NextTable]_vars

\* the first 256 entries of t hold every value of 0..255 exactly once
IsPermutation(t) ==
    /\ Len(t) >= 256
    /\ { t[k] : k \in 1..256 } = 0..255

TableInvariant ==
    /\ perm.phase \in {"shuffle", "done"} =>
          Len(perm.p) = 256 /\ IsPermutation(perm.p)
    /\ perm.phase = "done" =>
          /\ Len(perm.permutation) = 512
          /\ IsPermutation(perm.permutation)
          /\ \A k \in 1..256 : perm.permutation[256 + k] = perm.permutation[k]

\* C19: for every seed the table built by generatePermutation has 512
\* entries, its first 256 entries are a permutation of 0..255, kept by every
\* swap of the shuffle, entry 256 + i equals entry i, and the table is never
\* modified after construction.
C19_PermutationTable ==
    /\ []TableInvariant
    /\ [][perm.phase = "done" => perm'.permutation = perm.permutation]_vars

C19_Witness ==
    /\ perm.phase = "done"
    /\ perm.seed = 1
    /\ perm.permutation[1] = 104
    /\ perm.permutation[257] = 104
    /\ perm.permutation[512] = 160
    /\ perm.reads # {}

(***************************************************************************)
(* Biome selection                                                         *)
(***************************************************************************)
\* the positions of the biomes whose half-open range contains the value
Containing(biomes, controlValue) ==
    { i \in 1..Len(biomes) :
        controlValue >= biomes[i].controlRange[1] /\ controlValue < biomes[i].controlRange[2] }

\* the list is in ascending order of the lower bounds
SortedByLo(biomes) ==
    \A i \in 1..Len(biomes), j \in 1..Len(biomes) :
        i < j => biomes[i].controlRange[1] <= biomes[j].controlRange[1]

\* C21: for every control value and every sorted biome list getBiomeInfo
\* selects exactly one primary biome; when some biome's range [lo, hi)
\* contains the value the primary biome is the first such biome in ascending
\* order of lo; the next biome used for blending is the one immediately
\* after the primary in sorted order.
C21_PrimarySelection ==
    lookup.done =>
        LET info == lookup.info
            hits == Containing(engine.biomes, info.controlValue)
        IN  /\ SortedByLo(engine.biomes)
            /\ ~info.fault
            /\ info.primary \in 1..Len(engine.biomes)
            /\ hits # {} =>
                  /\ info.primary \in hits
                  /\ \A i \in hits : info.primary <= i
            /\ info.next # 0 => info.next = info.primary + 1

\* the statement of C21 for the engines that hold at least one biome
C21_SelectionAmongBiomes ==
    (lookup.done /\ Len(engine.biomes) >= 1) => C21_PrimarySelection

\* C25: whenever getBiomeInfo blends, the blend factor alpha lies strictly
\* between 0 and 1 (alpha is a number of tenths), so every blended scalar
\* parameter lies between the primary biome's value and the next biome's
\* value; no blending is applied when the primary biome was chosen by the
\* fallback.
C25_AlphaInOpenUnitInterval ==
    (lookup.done /\ ~lookup.info.fault) =>
        LET info == lookup.info
            P == info.blendedParams
            Between(v, a, b) == v >= 10 * Min2(a, b) /\ v <= 10 * Max2(a, b)
        IN  /\ ~info.matched => ~P.blended
            /\ P.blended =>
                  LET A == engine.biomes[info.primary].terrainParams
                      B == engine.biomes[info.next].terrainParams
                  IN  /\ info.matched
                      /\ info.next # 0
                      /\ info.alpha > 0 /\ info.alpha < 10
                      /\ Between(P.scale, A.scale, B.scale)
                      /\ Between(P.octaves, A.octaves, B.octaves)
                      /\ Between(P.baseHeight, OrDefault(A.baseHeight, 0), OrDefault(B.baseHeight, 0))
                      /\ Between(P.amplitude, OrDefault(A.amplitude, 0), OrDefault(B.amplitude, 0))
                      /\ Between(P.persistence, OrDefault(A.persistence, 5), OrDefault(B.persistence, 5))
                      /\ Between(P.lacunarity, OrDefault(A.lacunarity, 20), OrDefault(B.lacunarity, 20))

\* a blend one hundredth below the boundary, and so with the largest alpha
C25_Witness ==
    /\ lookup.done
    /\ ~lookup.info.fault
    /\ lookup.info.blendedParams.blended
    /\ lookup.info.alpha = 9
    /\ lookup.info.controlValue = engine.biomes[lookup.info.primary].controlRange[2] - 1
    /\ lookup.info.blendedParams.octaves = 31

\* C30: every index that noise() uses to read the permutation table lies in
\* 0..511, inside the 512-entry table.
C30_NoiseIndicesInTable ==
    perm.phase = "done" =>
        \A k \in perm.reads :
            /\ k >= 0 /\ k <= 511
            /\ k < Len(perm.permutation)

C30_Witness ==
    /\ perm.phase = "done"
    /\ 511 \in perm.reads
    /\ 256 \in perm.reads

\* C22: the octave count handed to the fractal noise after biome blending is
\* an integer: a value interpolated between two biomes is rounded to the
\* nearest integer before the noise loop uses it (octaves are in tenths, so
\* an integer is a multiple of 10).
C22_OctavesAreInteger ==
    (lookup.done /\ ~lookup.info.fault) =>
        elevationParams(lookup.info.blendedParams).octaves % 10 = 0

\* C23: after any number of generateTerrain / regenerate calls on the
\* multi-material path every material geometry holds exactly (segments+1)^2
\* vertices, those of the current grid in row-major order (nothing is left
\* from earlier calls), all material geometries hold the same vertex
\* positions, and every stored index is below (segments+1)^2.
C23_GeometryBuffersReset ==
    engine.result.kind = "group" =>
        LET N == engine.segments
            G == engine.materialGeometries
        IN  /\ Len(G) >= 1
            /\ \A i \in 1..Len(G) :
                  /\ Len(G[i].vertices) = 3 * (N + 1) * (N + 1)
                  /\ \A x \in 0..N, z \in 0..N :
                        LET at == 3 * (z * (N + 1) + x) IN
                        /\ G[i].vertices[at + 1] = nodeX(engine, x)
                        /\ G[i].vertices[at + 2] = engine.heightMap[z][x]
                        /\ G[i].vertices[at + 3] = nodeZ(engine, z)
                  /\ \A j \in 1..Len(G) : G[j].vertices = G[i].vertices
                  /\ \A k \in 1..Len(G[i].indices) :
                        G[i].indices[k] >= 0 /\ G[i].indices[k] < (N + 1) * (N + 1)

\* a multi-material generation on an engine that generated before (the mesh
\* of a standard generation is still held), with more than one geometry
C23_Witness ==
    /\ engine.result.kind = "group"
    /\ engine.mesh.present
    /\ engine.segments >= 2
    /\ Len(engine.materialGeometries) >= 2
    /\ \E i \in 1..Len(engine.materialGeometries) :
          Len(engine.materialGeometries[i].indices) > 0

(***************************************************************************)
(* The discrete-bucket terrain generator (the TerrainGenerator of           *)
(* terrain.ts 910-1340): every position belongs to the biome its biome      *)
(* noise value selects, and parameters are averaged over nine samples.      *)
(* Units: noiseScale thousandths, persistence and baseHeight and colour     *)
(* channels hundredths, lacunarity and heightMultiplier tenths, octaves a   *)
(* count; a blended value is the fraction num / den.                        *)
(***************************************************************************)
Rgb(r, g, b) == [r |-> r, g |-> g, b |-> b]

DiscreteBiome(n, ns, o, p, l, hm, bh, low, mid, high) ==
    [name |-> n, noiseScale |-> ns, octaves |-> o, persistence |-> p, lacunarity |-> l,
     heightMultiplier |-> hm, baseHeight |-> bh,
     colors |-> [low |-> low, mid |-> mid, high |-> high]]

\* the first three biomes of the default constructor
PlainsBucket ==
    DiscreteBiome("Plains", 15, 4, 40, 20, 3, 10,
                  Rgb(20, 60, 10), Rgb(30, 70, 20), Rgb(40, 50, 30))

MountainsBucket ==
    DiscreteBiome("Mountains", 8, 8, 60, 25, 12, 20,
                  Rgb(30, 50, 20), Rgb(50, 50, 50), Rgb(90, 90, 90))

DesertBucket ==
    DiscreteBiome("Desert", 20, 3, 30, 18, 4, 0,
                  Rgb(80, 70, 40), Rgb(70, 60, 30), Rgb(60, 50, 30))

\* a second biome under the name of the first
PlainsAgain ==
    DiscreteBiome("Plains", 25, 6, 50, 22, 6, 15,
                  Rgb(10, 40, 10), Rgb(20, 50, 10), Rgb(30, 60, 20))

\* params.biomes of the discrete constructor
BucketLists ==
    { <<DesertBucket>>,
      <<PlainsBucket, MountainsBucket>>,
      <<PlainsBucket, MountainsBucket, DesertBucket>>,
      <<PlainsBucket, MountainsBucket, PlainsAgain>> }

\* this.biomes[biome.name] = biome: a name seen before keeps its place among
\* the keys and takes the new biome
RECURSIVE keyByName(_, _)
keyByName(biomes, rest) ==
    IF rest = <<>> THEN biomes
    ELSE LET b == Head(rest)
             at == { i \in 1..Len(biomes) : biomes[i].name = b.name }
         IN  keyByName(IF at = {} THEN Append(biomes, b)
                       ELSE [biomes EXCEPT ![CHOOSE i \in at : TRUE] = b],
                       Tail(rest))

\* new TerrainGenerator(params) of the discrete model: the biomes in the order
\* of Object.keys(this.biomes)
DiscreteConstruct(biomes) == [biomeList |-> keyByName(<<>>, biomes)]

\* the values of biomeNoise.fractalNoise at a sample, in hundredths
BiomeNoiseValues == {-100, 100}

\* getBiomeAtPosition after the biome noise was sampled
getBiomeAtPosition(d, biomeValue) ==
    LET len == Len(d.biomeList)
        biomeIndex == ((biomeValue + 100) * len) \div 200
        clampedIndex == Max2(0, Min2(len - 1, biomeIndex))
    IN  d.biomeList[clampedIndex + 1]

\* sample.weight * Math.exp(-distance / 50) of the nine samples, in
\* thousandths: the centre, four at distance 100, four at distance 70 * sqrt(2)
SampleWeights == <<4000, 135, 135, 135, 135, 69, 69, 69, 69>>

RECURSIVE SumOver(_, _)
SumOver(f, n) == IF n = 0 THEN 0 ELSE f[n] + SumOver(f, n - 1)

\* variant: the influence weights left as they were accumulated
normalizedWeight_Raw(weight, totalWeight) == [num |-> weight, den |-> 1000]

\* influence.weight /= totalWeight
normalizedWeight(weight, totalWeight) == [num |-> weight, den |-> totalWeight]

\* Math.round of the fraction num / den
MathRound(num, den) == (2 * num + den) \div (2 * den)

\* getBlendedBiomeParams; biomeValues are the biome noise values at the nine
\* samples
getBlendedBiomeParams(d, biomeValues) ==
    LET sampled == [k \in 1..9 |-> getBiomeAtPosition(d, biomeValues[k])]
        totalWeight == SumOver(SampleWeights, 9)
        \* biomeInfluences[name].weight for the biomes in the order of the
        \* list, 0 for a name without entry
        influences ==
            [i \in 1..Len(d.biomeList) |->
                SumOver([k \in 1..9 |-> IF sampled[k].name = d.biomeList[i].name
                                        THEN SampleWeights[k] ELSE 0], 9)]
        weights ==
            [i \in 1..Len(d.biomeList) |->
                IF influences[i] = 0 THEN [num |-> 0, den |-> totalWeight]
                ELSE normalizedWeight(influences[i], totalWeight)]
        den == IF \E i \in 1..Len(d.biomeList) : weights[i].den # totalWeight
               THEN 1000 ELSE totalWeight
        blendOf(value(_)) ==
            [num |-> SumOver([i \in 1..Len(d.biomeList) |->
                                 value(d.biomeList[i]) * weights[i].num], Len(d.biomeList)),
             den |-> den]
        noiseScale(b) == b.noiseScale
        octaves(b) == b.octaves
        persistence(b) == b.persistence
        lacunarity(b) == b.lacunarity
        heightMultiplier(b) == b.heightMultiplier
        baseHeight(b) == b.baseHeight
        lowR(b) == b.colors.low.r
        lowG(b) == b.colors.low.g
        lowB(b) == b.colors.low.b
        midR(b) == b.colors.mid.r
        midG(b) == b.colors.mid.g
        midB(b) == b.colors.mid.b
        highR(b) == b.colors.high.r
        highG(b) == b.colors.high.g
        highB(b) == b.colors.high.b
    IN  [noiseScale |-> blendOf(noiseScale),
         octaves |-> [num |-> MathRound(blendOf(octaves).num, den), den |-> 1],
         persistence |-> blendOf(persistence),
         lacunarity |-> blendOf(lacunarity),
         heightMultiplier |-> blendOf(heightMultiplier),
         baseHeight |-> blendOf(baseHeight),
         colors |-> [low |-> Rgb(blendOf(lowR), blendOf(lowG), blendOf(lowB)),
                     mid |-> Rgb(blendOf(midR), blendOf(midG), blendOf(midB)),
                     high |-> Rgb(blendOf(highR), blendOf(highG), blendOf(highB))]]

\* a biome's own values as fractions
Exact(v) == [num |-> v, den |-> 1]

ownColors(b) ==
    [level \in {"low", "mid", "high"} |->
        Rgb(Exact(b.colors[level].r), Exact(b.colors[level].g), Exact(b.colors[level].b))]

\* getBiomeTerrainColor(height, biome) of the discrete model; height is the
\* normalized height in hundredths, the channels of colors are fractions with
\* one denominator
getBucketTerrainColor(height, colors) ==
    LET mix(a, b, from) ==
            [num |-> 30 * a.num + (height - from) * (b.num - a.num), den |-> 30 * a.den]
        between(a, b, from) == Rgb(mix(a.r, b.r, from), mix(a.g, b.g, from), mix(a.b, b.b, from))
    IN  IF height < 40 THEN colors.low
        ELSE IF height < 70 THEN between(colors.low, colors.mid, 40)
        ELSE between(colors.mid, colors.high, 70)

\* the normalized heights at which a vertex is coloured, in hundredths
NormalizedHeights == {20, 55, 85}

InitBlend ==
    /\ engine = IdleEngine
    /\ engine2 = IdleEngine
    /\ query = NoQuery
    /\ classified = NoClassification
    /\ lookup = NoLookup
    /\ colour = NoColour
    /\ validated = NoValidation
    /\ perm = NoTable
    /\ scene = NoScene
    /\ player = NoPlayer
    /\ river = NoRiver
    /\ \E biomes \in BucketLists :
          blending = [done |-> FALSE, generator |-> DiscreteConstruct(biomes)]

\* the parameters and the colour of one vertex in generateTerrain of the
\* discrete model
BlendAction ==
    /\ ~blending.done
    /\ \E biomeValues \in [1..9 -> BiomeNoiseValues], height \in NormalizedHeights :
          LET biome == getBlendedBiomeParams(blending.generator, biomeValues) IN
          blending' = [done |-> TRUE, generator |-> blending.generator,
                       biomeValues |-> biomeValues, height |-> height,
                       biome |-> biome,
                       color |-> getBucketTerrainColor(height, biome.colors)]
    /\ UNCHANGED <<engine, engine2, query, classified, lookup, colour, validated, perm,
                   scene, player, river>>

SpecBlend == InitBlend /\ [][BlendAction]_vars

\* the fractions a and b are the same number
SameNumber(a, b) == a.num * b.den = b.num * a.den

SameColor(c, d) == SameNumber(c.r, d.r) /\ SameNumber(c.g, d.g) /\ SameNumber(c.b, d.b)

\* the biomes the nine samples of the last blend resolved to
SampledBiomes ==
    { getBiomeAtPosition(blending.generator, blending.biomeValues[k]) : k \in 1..9 }

\* C24: in the discrete-bucket model, when all nine blend samples around a
\* vertex resolve to the same biome, the blended parameters and the low, mid
\* and high colours equal that biome's own values exactly, and the vertex
\* colour is that biome's ramp colour.
C24_SingleBiomeUnblended ==
    (blending.done /\ Cardinality(SampledBiomes) = 1) =>
        LET b == CHOOSE s \in SampledBiomes : TRUE
            P == blending.biome
        IN  /\ SameNumber(P.noiseScale, Exact(b.noiseScale))
            /\ SameNumber(P.octaves, Exact(b.octaves))
            /\ SameNumber(P.persistence, Exact(b.persistence))
            /\ SameNumber(P.lacunarity, Exact(b.lacunarity))
            /\ SameNumber(P.heightMultiplier, Exact(b.heightMultiplier))
            /\ SameNumber(P.baseHeight, Exact(b.baseHeight))
            /\ \A level \in {"low", "mid", "high"} :
                  SameColor(P.colors[level], ownColors(b)[level])
            /\ SameColor(blending.color, getBucketTerrainColor(blending.height, ownColors(b)))

\* all nine samples in the last biome of a list of three, selected by the
\* clamped index, with the vertex coloured between two ramp colours
C24_Witness ==
    /\ blending.done
    /\ Cardinality(SampledBiomes) = 1
    /\ Len(blending.generator.biomeList) = 3
    /\ \A s \in SampledBiomes : s = blending.generator.biomeList[3]
    /\ blending.height = 55
    /\ blending.biome.octaves.num = 3

(***************************************************************************)
(* The scene and the buttons of the UI (main.ts, ui.ts).  Every terrain     *)
(* object that a generation returns gets the next identifier; disposals     *)
(* counts, per identifier, how often the object's geometry and materials    *)
(* were disposed.                                                           *)
(***************************************************************************)
\* how many regenerateTerrain calls a behaviour holds
MaxCalls == 3

\* sampleTerrainParameters
SampleParamsSet ==
    { [global |-> [width |-> 2, depth |-> 2 * MaxCell, segments |-> 1],
       biomeControl |-> [seed |-> 0, scale |-> 1, octaves |-> 2],
       biomes |-> bl] : bl \in { <<Plains, Hills>>, <<Lake, Lava>> } }

\* the parameter objects that the awaited generateTerrainParameters(prompt)
\* delivers to regenerateTerrain
GeneratedParams ==
    { [global |-> [width |-> 2, depth |-> 2 * MaxCell, segments |-> 1],
       biomeControl |-> [seed |-> 0, scale |-> 1, octaves |-> 2],
       biomes |-> bl] : bl \in { <<>>, <<Plains>>, <<Glacier, Plains>> } }

\* scene.getObjectByName('terrain'): the position of the first such child, 0
\* when there is none
getObjectByName(objects, name) ==
    IF \E i \in 1..Len(objects) : objects[i].name = name
    THEN CHOOSE i \in 1..Len(objects) :
            /\ objects[i].name = name
            /\ \A j \in 1..(i - 1) : objects[j].name # name
    ELSE 0

\* scene.remove(object)
removeAt(objects, i) ==
    [k \in 1..(Len(objects) - 1) |-> IF k < i THEN objects[k] ELSE objects[k + 1]]

\* geometry.dispose() and material.dispose() on the object id; id 0 is no object
dispose(disposals, id) ==
    IF id = 0 THEN disposals ELSE [disposals EXCEPT ![id] = @ + 1]

\* the first half of regenerateTerrain: the old terrain leaves the scene and
\* is disposed when it is a THREE.Mesh
removeTerrain(sc) ==
    LET at == getObjectByName(sc.objects, "terrain") IN
    IF at = 0 THEN sc
    ELSE LET terrain == sc.objects[at] IN
         [sc EXCEPT !.objects = removeAt(sc.objects, at),
                    !.removed = @ \cup {terrain.id},
                    !.disposals = IF terrain.kind = "mesh" THEN dispose(@, terrain.id) ELSE @]

\* what a generation of the engine does to the objects: the standard path
\* disposes the mesh the engine holds and holds the new one, the
\* multi-material path clears materialMeshes and builds a new group; the new
\* object is named 'terrain' and added to the scene
addTerrain(sc, e) ==
    LET id == Len(sc.created) + 1
        object == [name |-> "terrain", kind |-> e.result.kind, id |-> id]
    IN  IF e.result.kind = "throw" THEN sc
        ELSE [sc EXCEPT !.created = Append(@, [kind |-> e.result.kind,
                                               parts |-> Len(e.result.children)]),
                        !.disposals = IF e.result.kind = "mesh"
                                      THEN Append(dispose(@, sc.held), 0)
                                      ELSE Append(@, 0),
                        !.held = IF e.result.kind = "mesh" THEN id ELSE @,
                        !.objects = Append(@, object)]

\* regenerateTerrain(terrainGenerator, scene, params): the scene after the
\* call, regenerated being the engine after regenerate(params)
regenerateTerrain(sc, regenerated) ==
    [addTerrain(removeTerrain(sc), regenerated) EXCEPT !.calls = @ + 1]

\* main.ts up to new TerrainGenerator(sampleTerrainParameters)
InitScene ==
    /\ engine2 = IdleEngine
    /\ query = NoQuery
    /\ classified = NoClassification
    /\ lookup = NoLookup
    /\ colour = NoColour
    /\ validated = NoValidation
    /\ perm = NoTable
    /\ blending = NoBlend
    /\ player = NoPlayer
    /\ river = NoRiver
    /\ \E sample \in SampleParamsSet, rnd \in RandomSeeds :
          /\ engine = Construct(sample, rnd)
          /\ scene = [phase |-> "init", sample |-> sample, objects |-> <<>>,
                      created |-> <<>>, disposals |-> <<>>, removed |-> {},
                      held |-> 0, pending |-> FALSE, calls |-> 0, status |-> ""]

\* const terrain = terrainGenerator.generateTerrain(); terrain.name =
\* 'terrain'; scene.add(terrain); setupUI(terrainGenerator, scene)
SetupAction ==
    /\ scene.phase = "init"
    /\ engine' = generateTerrain(engine)
    /\ scene' = [addTerrain(scene, engine') EXCEPT
                    !.phase = IF engine'.result.kind = "throw" THEN "crashed" ELSE "running"]
    /\ UNCHANGED <<engine2, query, classified, lookup, colour, validated, perm,
                   blending, player, river>>

\* the click handler of the regenerate button
RegenerateButtonAction ==
    /\ scene.phase = "running"
    /\ scene.calls < MaxCalls
    /\ \E rnd \in RandomSeeds : engine' = regenerate(engine, scene.sample, rnd)
    /\ scene' = regenerateTerrain(scene, engine')
    /\ UNCHANGED <<engine2, query, classified, lookup, colour, validated, perm,
                   blending, player, river>>

\* the click handler of the default button; an exception of regenerate
\* leaves the status text as it was
DefaultButtonAction ==
    /\ scene.phase = "running"
    /\ scene.calls < MaxCalls
    /\ \E rnd \in RandomSeeds : engine' = regenerate(engine, scene.sample, rnd)
    /\ scene' = IF engine'.result.kind = "throw" THEN regenerateTerrain(scene, engine')
                ELSE [regenerateTerrain(scene, engine') EXCEPT
                         !.status = "Default terrain loaded."]
    /\ UNCHANGED <<engine2, query, classified, lookup, colour, validated, perm,
                   blending, player, river>>

\* the click handler of the generate button up to its await; the button is
\* disabled until the handler ends
GenerateClickAction ==
    /\ scene.phase = "running"
    /\ ~scene.pending
    /\ scene.calls < MaxCalls
    /\ scene' = [scene EXCEPT !.pending = TRUE, !.status = "Generating..."]
    /\ UNCHANGED <<engine, engine2, query, classified, lookup, colour, validated, perm,
                   blending, player, river>>

\* the awaited parameters arrive: regenerateTerrain inside try; an exception
\* of regenerate ends the call and is caught by the handler
GenerateResolveAction ==
    /\ scene.phase = "running"
    /\ scene.pending
    /\ \E params \in GeneratedParams, rnd \in RandomSeeds :
          engine' = regenerate(engine, params, rnd)
    /\ scene' = [regenerateTerrain(scene, engine') EXCEPT
                    !.pending = FALSE,
                    !.status = IF engine'.result.kind = "throw"
                               THEN "Generation failed." ELSE "Generated!"]
    /\ UNCHANGED <<engine2, query, classified, lookup, colour, validated, perm,
                   blending, player, river>>

\* generateTerrainParameters rejects: the handler reports the failure
GenerateRejectAction ==
    /\ scene.phase = "running"
    /\ scene.pending
    /\ scene' = [scene EXCEPT !.pending = FALSE, !.status = "Generation failed."]
    /\ UNCHANGED <<engine, engine2, query, classified, lookup, colour, validated, perm,
                   blending, player, river>>

NextScene ==
    \/ SetupAction
    \/ RegenerateButtonAction
    \/ DefaultButtonAction
    \/ GenerateClickAction
    \/ GenerateResolveAction
    \/ GenerateRejectAction

SpecScene == InitScene /\ [][NextScene]_vars

\* the objects of the scene named 'terrain'
TerrainObjects == { i \in 1..Len(scene.objects) : scene.objects[i].name = "terrain" }

\* C26: after the initial setup and after any sequence of regenerateTerrain
\* calls of the UI (regenerate, default and generate buttons, the generate
\* call completing at any point, calls whose regenerate throws) the scene
\* contains exactly one object named 'terrain'.
C26_ExactlyOneTerrain ==
    scene.phase = "running" => Cardinality(TerrainObjects) = 1

\* the same for the states in which the last generation of the engine
\* returned a terrain
C26_OneTerrainAfterReturn ==
    (scene.phase = "running" /\ Generated(engine)) => Cardinality(TerrainObjects) = 1

\* C27: every terrain object that regenerateTerrain removed from the scene,
\* the single mesh of the standard path or the group of the multi-material
\* path, had its geometry and materials disposed exactly once.
C27_RemovedDisposedOnce ==
    scene.phase = "running" =>
        \A id \in scene.removed :
            scene.created[id].parts > 0 => scene.disposals[id] = 1

\* a removed terrain is never disposed more than once per dispose call site:
\* at most by regenerateTerrain and by the next standard generation
C27_AtMostTwice ==
    scene.phase = "running" =>
        \A id \in 1..Len(scene.disposals) :
            /\ scene.disposals[id] <= 2
            /\ scene.created[id].kind = "group" => scene.disposals[id] = 0

(***************************************************************************)
(* Player mode (state.ts, controls.ts, ui.ts, the two movement updates).    *)
(* Vertical quantities are integers in the unit 1 / (10 * HeightDen)        *)
(* thousandths, HeightDen being the denominator of getHeightAtPosition on   *)
(* the engine, so that heights, the player height and the steps of gravity  *)
(* are exact.                                                               *)
(***************************************************************************)
\* the denominator of the heights that getHeightAtPosition returns
HeightDen(e) == 4 * e.width * e.depth

\* a number of ten-thousandths in the vertical unit
Vertical(e, tenThousandths) == tenThousandths * HeightDen(e)

\* terrainGenerator.getHeightAtPosition(x, z) in the vertical unit
groundHeight(e, x, z) == 10 * getHeightAtPosition(e, x, z).num

\* state.playerHeight: 2
playerHeight(e) == Vertical(e, 20000)

\* the parameters of the terrains walked on
PlayerParams ==
    { [global |-> [width |-> 2, depth |-> 2, segments |-> 1],
       biomeControl |-> [seed |-> 0, scale |-> 1, octaves |-> 2],
       biomes |-> bl] : bl \in { <<Glacier, Lava, Lake>> } }

\* the camera heights at which player mode is entered, in ten-thousandths
CameraHeights == {0, 120000}

\* the horizontal displacement of one update along one axis
Steps == {-1, 0, 1}

\* assetManager.getCollisionMeshes(): one placed asset, a column over the
\* terrain point (AssetX, AssetZ) whose top is half a unit above the camera of
\* a player standing there
AssetX == 1

AssetZ == 0

assetTop(e) == groundHeight(e, AssetX, AssetZ) + playerHeight(e) + Vertical(e, 5000)

\* checkMeshCollision(newPosition, direction): a ray from the new position
\* meets the asset within playerRadius = 0.5
checkMeshCollision(e, x, z, y) ==
    x = AssetX /\ z = AssetZ /\ y < assetTop(e) + Vertical(e, 5000)

\* variant: an update that does not clamp leaves isGrounded as it was
groundCollision_KeepGrounded(p, ground, height, strict) ==
    IF (IF strict THEN p.y < ground + height ELSE p.y <= ground + height)
    THEN [p EXCEPT !.y = ground + height, !.vy = 0, !.isGrounded = TRUE, !.clamped = TRUE]
    ELSE [p EXCEPT !.clamped = FALSE]

\* the terrain collision at the end of an update; strict tells whether the
\* comparison is < (player.ts) or <= (part_010); clamped records the branch
groundCollision(p, ground, height, strict) ==
    IF (IF strict THEN p.y < ground + height ELSE p.y <= ground + height)
    THEN [p EXCEPT !.y = ground + height, !.vy = 0, !.isGrounded = TRUE, !.clamped = TRUE]
    ELSE [p EXCEPT !.isGrounded = FALSE, !.clamped = FALSE]

\* updatePlayerMovement(moveVector, terrainGenerator) of part_010; impulse and
\* wasGrounded record whether the jump impulse was applied and the value of
\* isGrounded at the start of the update
updatePlayerMovement(p, e, dx, dz) ==
    LET jumps == p.jump /\ p.isGrounded
        moved == [p EXCEPT !.x = @ + dx, !.z = @ + dz,
                           !.updated = TRUE, !.impulse = jumps,
                           !.wasGrounded = p.isGrounded]
        jumped == IF jumps
                  THEN [moved EXCEPT !.vy = @ + Vertical(e, 2000),
                                     !.isGrounded = FALSE, !.jump = FALSE]
                  ELSE moved
        \* state.gravity * 0.016 with state.gravity = -0.8
        pulled == [jumped EXCEPT !.vy = @ - Vertical(e, 128)]
        fallen == [pulled EXCEPT !.y = @ + pulled.vy]
    IN  groundCollision(fallen, groundHeight(e, fallen.x, fallen.z), playerHeight(e), FALSE)

\* updatePlayerMode(delta, terrainGenerator, assetManager) of player.ts with
\* delta = 0.1; meshLanded records that the vertical mesh collision set
\* isGrounded
updatePlayerMode(p, e, dx, dz) ==
    LET jumps == p.jump /\ p.isGrounded
        \* gravity * delta = -20 * 0.1
        pulled == IF ~p.isGrounded THEN [p EXCEPT !.vy = @ - Vertical(e, 20000)] ELSE p
        \* jumpHeight = 8
        jumped == [pulled EXCEPT !.vy = IF jumps THEN Vertical(e, 80000) ELSE @,
                                 !.jump = FALSE, !.updated = TRUE, !.impulse = jumps,
                                 !.wasGrounded = p.isGrounded]
        verticalDisplacement == jumped.vy \div 10
        movedX == IF checkMeshCollision(e, jumped.x + dx, jumped.z, jumped.y)
                  THEN jumped ELSE [jumped EXCEPT !.x = @ + dx]
        movedZ == IF checkMeshCollision(e, movedX.x, movedX.z + dz, movedX.y)
                  THEN movedX ELSE [movedX EXCEPT !.z = @ + dz]
        landed == verticalDisplacement < 0
        movedY == IF checkMeshCollision(e, movedZ.x, movedZ.z, movedZ.y + verticalDisplacement)
                  THEN [movedZ EXCEPT !.vy = 0,
                                      !.isGrounded = IF landed THEN TRUE ELSE @,
                                      !.meshLanded = landed]
                  ELSE [movedZ EXCEPT !.y = @ + verticalDisplacement, !.meshLanded = FALSE]
    IN  groundCollision(movedY, groundHeight(e, movedY.x, movedY.z), playerHeight(e), TRUE)

\* setControlMode('player', terrainGenerator)
setControlMode(p, e) ==
    [p EXCEPT !.mode = "player", !.vy = 0,
              !.y = Max2(@, groundHeight(e, p.x, p.z) + playerHeight(e))]

\* the animation loop starts after main.ts generated the terrain; the camera
\* is somewhere over or under it
InitPlayer ==
    /\ engine2 = IdleEngine
    /\ query = NoQuery
    /\ classified = NoClassification
    /\ lookup = NoLookup
    /\ colour = NoColour
    /\ validated = NoValidation
    /\ perm = NoTable
    /\ blending = NoBlend
    /\ scene = NoScene
    /\ river = NoRiver
    /\ \E params \in PlayerParams, rnd \in RandomSeeds :
          engine = generateTerrain(Construct(params, rnd))
    /\ \E version \in {"part_010", "player.ts"}, height \in CameraHeights :
          player = [mode |-> "camera", version |-> version, x |-> 0, z |-> 0,
                    y |-> Vertical(engine, height), vy |-> 0,
                    isGrounded |-> FALSE, jump |-> FALSE, updated |-> FALSE,
                    clamped |-> FALSE, impulse |-> FALSE, wasGrounded |-> FALSE,
                    meshLanded |-> FALSE]

\* a click on the player mode button
SetControlModeAction ==
    /\ player.mode = "camera"
    /\ player' = setControlMode(player, engine)
    /\ UNCHANGED <<engine, engine2, query, classified, lookup, colour, validated, perm,
                   blending, scene, river>>

\* keydown of the space bar
JumpKeyAction ==
    /\ player.mode = "player"
    /\ ~player.jump
    /\ player' = [player EXCEPT !.jump = TRUE]
    /\ UNCHANGED <<engine, engine2, query, classified, lookup, colour, validated, perm,
                   blending, scene, river>>

\* the positions the walk is followed over
InWalk(e, x, z) ==
    /\ 2 * x >= 0 - e.width - 2 /\ 2 * x <= e.width + 2
    /\ 2 * z >= 0 - e.depth - 2 /\ 2 * z <= e.depth + 2

\* one frame of the animation loop in player mode, part_010
UpdatePlayerMovementAction ==
    /\ player.mode = "player"
    /\ player.version = "part_010"
    /\ \E dx \in Steps, dz \in Steps :
          /\ InWalk(engine, player.x + dx, player.z + dz)
          /\ player' = updatePlayerMovement(player, engine, dx, dz)
    /\ UNCHANGED <<engine, engine2, query, classified, lookup, colour, validated, perm,
                   blending, scene, river>>

\* one frame of the animation loop in player mode, player.ts
UpdatePlayerModeAction ==
    /\ player.mode = "player"
    /\ player.version = "player.ts"
    /\ \E dx \in Steps, dz \in Steps :
          /\ InWalk(engine, player.x + dx, player.z + dz)
          /\ player' = updatePlayerMode(player, engine, dx, dz)
    /\ UNCHANGED <<engine, engine2, query, classified, lookup, colour, validated, perm,
                   blending, scene, river>>

NextPlayer ==
    \/ SetControlModeAction
    \/ JumpKeyAction
    \/ UpdatePlayerMovementAction
    \/ UpdatePlayerModeAction

SpecPlayer == InitPlayer /\ [][NextPlayer]_vars

\* C28: in player mode, after every movement update the camera is at least
\* the player height above the terrain at its new (x, z), isGrounded is true
\* exactly when the update clamped the position onto the terrain, and a jump
\* impulse was applied only if isGrounded was true when the update began.
C28_PlayerAboveGround ==
    (player.mode = "player" /\ player.updated) =>
        /\ player.y >= groundHeight(engine, player.x, player.z) + playerHeight(engine)
        /\ player.isGrounded <=> player.clamped
        /\ player.clamped =>
              player.y = groundHeight(engine, player.x, player.z) + playerHeight(engine)
        /\ player.impulse => player.wasGrounded

\* an update of player.ts in which the player came down on the asset away
\* from where the walk began: the mesh collision set isGrounded, and the
\* terrain collision, which did not clamp, reset it
C28_Witness ==
    /\ player.mode = "player"
    /\ player.version = "player.ts"
    /\ player.updated
    /\ player.meshLanded
    /\ ~player.clamped
    /\ ~player.isGrounded
    /\ player.x = AssetX /\ player.z = AssetZ

(***************************************************************************)
(* River generation of WaterSystemGenerator (water-system.ts).             *)
(* generateRivers scans the segments x segments grid of flow cells and     *)
(* traces a river from every unvisited cell whose flow rate reaches the    *)
(* threshold.  A cell's flow direction is read only in the iteration that   *)
(* adds the cell to visited, so it is read at most once and is chosen when  *)
(* it is read: the behaviours are those over all the flow fields built     *)
(* from the directions below.  The pool map and the cells that reach the    *)
(* threshold are fixed at the start.                                        *)
(***************************************************************************)

\* this.segments of the water system
RiverSegments == 3

GridIndex == 0..(RiverSegments - 1)

\* cells are <<i, j>>
Cells == GridIndex \X GridIndex

InGrid(i, j) == i >= 0 /\ i < RiverSegments /\ j >= 0 /\ j < RiverSegments

\* the cells calculateFlowDirections assigns a direction to
Interior(i, j) ==
    i >= 1 /\ i < RiverSegments - 1 /\ j >= 1 /\ j < RiverSegments - 1

\* flow directions <<z, x>> in thousandths: (0, 0) of the constructor and the
\* eight normalised Moore directions of calculateFlowDirections
Normalised(di, dj) ==
    IF di # 0 /\ dj # 0 THEN <<707 * di, 707 * dj>> ELSE <<1000 * di, 1000 * dj>>

MooreDirections == { Normalised(di, dj) : di \in {-1, 0, 1}, dj \in {-1, 0, 1} }

\* the directions tried on the border cells of an arbitrary flow field
BorderDirections == { <<0, 0>>, <<0, 1000>>, <<1000, 0>>, <<0, -1000>>, <<-707, -707>> }

\* "computed": the field calculateFlowDirections leaves, border cells keep
\* (0, 0); "any": border cells hold directions too
FieldKinds == {"computed", "any"}

flowDirections(kind, i, j) ==
    IF Interior(i, j) THEN MooreDirections
    ELSE IF kind = "any" THEN BorderDirections
    ELSE { <<0, 0>> }

\* the cells with flowRate >= riverThreshold: every cell (flowRate is at least
\* 1, the threshold segments * segments * 0.01 * density is below 1 for the
\* default river density) or, for a high density, the cells of the middle row
RiverSources == { Cells, { c \in Cells : c[1] = 1 } }

\* this.poolMap: the cells of the generated lakes
PoolMaps == { {}, { <<1, 2>> } }

\* Math.round(current + component) with the component in thousandths
roundCell(current, component) == (1000 * current + component + 500) \div 1000

\* the scan position after cell (i, j)
nextScan(r) ==
    IF r.j + 1 < RiverSegments THEN [r EXCEPT !.j = @ + 1]
    ELSE IF r.i + 1 < RiverSegments THEN [r EXCEPT !.i = @ + 1, !.j = 0]
    ELSE [r EXCEPT !.phase = "done"]

\* traceRiver(i, j, visited) is entered with a set of its own
startTrace_OwnVisited(r) ==
    [r EXCEPT !.phase = "trace", !.cur = <<r.i, r.j>>, !.points = <<>>,
              !.visited = {}]

\* traceRiver(i, j, visited) is entered: visited is the set of generateRivers
startTrace(r) ==
    [r EXCEPT !.phase = "trace", !.cur = <<r.i, r.j>>, !.points = <<>>]

\* traceRiver returns; generateRivers keeps the segment if it has more than
\* five points and goes on with the next cell
endTrace(r, reason) ==
    nextScan([r EXCEPT !.phase = "scan",
                       !.rivers = IF Len(r.points) > 5 THEN Append(@, r.points) ELSE @,
                       !.points = <<>>,
                       !.stops = @ \cup {reason}])

\* one iteration of the loops of generateRivers at cell (i, j)
scanCell(r) ==
    IF <<r.i, r.j>> \in r.visited THEN nextScan(r)
    ELSE IF <<r.i, r.j>> \notin r.sources THEN nextScan(r)
    ELSE startTrace(r)

\* one evaluation of the loop condition of traceRiver and the iteration that
\* follows it; flowDir is cell.flowDirection
traceCell(r, flowDir) ==
    LET currentI == r.cur[1]
        currentJ == r.cur[2]
        nextI == roundCell(currentI, flowDir[1])
        nextJ == roundCell(currentJ, flowDir[2])
    IN  IF ~InGrid(currentI, currentJ) THEN endTrace(r, "border")
        ELSE IF r.cur \in r.visited
             THEN endTrace(r, IF r.points # <<>> /\ r.points[Len(r.points)] = r.cur
                              THEN "still" ELSE "visited")
        ELSE LET added == [r EXCEPT !.visited = @ \cup {r.cur},
                                    !.points = Append(@, r.cur)]
             IN  IF <<nextI, nextJ>> \in r.pools THEN endTrace(added, "pool")
                 ELSE [added EXCEPT !.cur = <<nextI, nextJ>>]

\* generateRivers(density, pools) is called
InitRiver ==
    /\ engine = IdleEngine
    /\ engine2 = IdleEngine
    /\ query = NoQuery
    /\ classified = NoClassification
    /\ lookup = NoLookup
    /\ colour = NoColour
    /\ validated = NoValidation
    /\ perm = NoTable
    /\ blending = NoBlend
    /\ scene = NoScene
    /\ player = NoPlayer
    /\ \E kind \in FieldKinds, pools \in PoolMaps, sources \in RiverSources :
          river = [phase |-> "scan", kind |-> kind, pools |-> pools, sources |-> sources,
                   i |-> 0, j |-> 0, visited |-> {}, cur |-> <<0, 0>>,
                   points |-> <<>>, rivers |-> <<>>, stops |-> {}]

ScanAction ==
    /\ river.phase = "scan"
    /\ river' = scanCell(river)
    /\ UNCHANGED <<engine, engine2, query, classified, lookup, colour, validated, perm,
                   blending, scene, player>>

TraceAction ==
    /\ river.phase = "trace"
    /\ \E flowDir \in (IF InGrid(river.cur[1], river.cur[2])
                       THEN flowDirections(river.kind, river.cur[1], river.cur[2])
                       ELSE { <<0, 0>> }) :
          river' = traceCell(river, flowDir)
    /\ UNCHANGED <<engine, engine2, query, classified, lookup, colour, validated, perm,
                   blending, scene, player>>

NextRiver ==
    \/ ScanAction
    \/ TraceAction

SpecRiver == InitRiver /\ [][NextRiver]_vars

\* the loops run: a step that can be taken is taken
SpecRiverFair == SpecRiver /\ WF_vars(NextRiver)

\* the cells of the recorded river segments, one after another
RECURSIVE recordedCells(_)
recordedCells(rivers) ==
    IF rivers = <<>> THEN <<>> ELSE Head(rivers) \o recordedCells(Tail(rivers))

Distinct(s) == \A a \in 1..Len(s), b \in 1..Len(s) : s[a] = s[b] => a = b

RiversDisjoint ==
    river.phase # "none" => Distinct(recordedCells(river.rivers) \o river.points)

\* C29: generateRivers returns for every flow field, and no grid cell is
\* a point of two recorded river segments (nor twice a point of one).
C29_RiversTerminateDisjoint ==
    /\ <>(river.phase = "done")
    /\ []RiversDisjoint

\* generateRivers returned a river, and its traces ended at a visited cell,
\* beyond the grid border, before a pool cell and on a cell whose flow
\* direction is (0, 0)
C29_Witness ==
    /\ river.phase = "done"
    /\ river.rivers # <<>>
    /\ river.stops = {"visited", "border", "pool", "still"}

====
